---- MODULE Spec2Model ----
(***************************************************************************)
(* The backtesting engine of maker_simulator: the simulation scheduler     *)
(* (SimulationEngine), the publish/subscribe fabric (SimulationCommsSystem *)
(* and SimulationModuleComms), the replay source (BinanceRepublisher), the *)
(* matching engine (MarketAgent over SimpleMarket) and the sample strategy *)
(* module (Stepper), registered as bin/sim/src/main.rs registers them.     *)
(*                                                                         *)
(* Units.  Time is in milliseconds since UNIX_EPOCH: every SystemTime the  *)
(* program handles is an exact number of milliseconds of the tapes, and    *)
(* the tape timestamps of the model are far below 2^64 ns, where           *)
(* set_time's cast to u64 is the identity.  Quantities are in units of     *)
(* 0.005 base asset, prices in quote per unit, so that the f64 arithmetic  *)
(* of the program is exact integer arithmetic here.                        *)
(***************************************************************************)
EXTENDS Integers, Sequences, FiniteSets, Bags, TLC

VARIABLES
    pc,                     \* where main() / SimulationEngine::run stands
    idx,                    \* index of the for loop pc stands in
    trade_tape,             \* input: the rows of the trades file
    bookticker_tape,        \* input: the rows of the bookTicker file
    hashRank,               \* order of DefaultHasher's value of Run(module)
    module_contexts,        \* SimulationEngine.module_contexts (names, by slot)
    comms,                  \* SimulationCommsSystemInner and the channels
    clock,                  \* SimulationTime.nanos_since_epoch (as ms)
    q,                      \* run()'s BinaryHeap<Reverse<TimedEvent>>
    module_last_sync_time,  \* run()'s module_last_sync_time
    stepper,                \* the Stepper module
    agent,                  \* the MarketAgent module
    repub,                  \* the BinanceRepublisher module
    start_calls,            \* history: modules whose start() was called
    terminate_calls,        \* history: modules whose terminate() was called
    dispatches,             \* history: <<time, module>> of every dispatch
    twin                    \* a second, independent engine instance

vars == <<pc, idx, trade_tape, bookticker_tape, hashRank, module_contexts,
          comms, clock, q, module_last_sync_time, stepper, agent, repub,
          start_calls, terminate_calls, dispatches, twin>>

-----------------------------------------------------------------------------
(* Bounds of the model and constants of the program *)

MaxTrades == 3
MaxTickers == 1

\* SystemTime::UNIX_EPOCH
UNIX_EPOCH == 0
\* market_agent.rs: the account summary is sent when more than 1000 whole
\* seconds have passed since the last one
SUMMARY_INTERVAL_SECS == 1000
MILLIS_PER_SEC == 1000
\* stepper.rs: at least 100 ms between two runs of the strategy
STEPPER_MIN_INTERVAL_MS == 100
\* pure_market_maker: orders older than 100 ms are canceled
MM_ORDER_EXPIRE_MILLSECONDS == 100
\* pure_market_maker: MM_QUANTITY = 0.01 base, two units of 0.005
MM_QUANTITY == 2
\* main.rs: with_initial_balance(quote, 50000.0), (base, 1.0 = 200 units)
INITIAL_QUOTE == 50000
INITIAL_BASE == 200

\* The first instant at which the matcher's summary interval has passed
T0 == (SUMMARY_INTERVAL_SECS + 1) * MILLIS_PER_SEC
\* Timestamps a tape row may carry
TapeTimes == {T0, T0 + 100, T0 + 201}
\* (price, is_buyer_maker, qty) a trade row may carry
TradeShapes == {[price |-> 2, is_buyer_maker |-> TRUE, qty |-> 1],
                [price |-> 3, is_buyer_maker |-> FALSE, qty |-> 3]}
\* (best_bid_price, best_ask_price) a book-ticker row may carry
TickerShapes == {[best_bid_price |-> 2, best_ask_price |-> 3]}
\* Values the strategy's reservation price -/+ half spread may take
QuotePrices == {1, 4}
QuoteChoices == QuotePrices \X QuotePrices

SYMBOL == "BTCUSDT"
BASE_ASSET == "BTC"
QUOTE_ASSET == "USDT"

None == [type |-> "None"]

-----------------------------------------------------------------------------
(* Helpers *)

Min(a, b) == IF a <= b THEN a ELSE b
Max(a, b) == IF a >= b THEN a ELSE b

Range(s) == {s[i] : i \in 1..Len(s)}

\* The element of a set of one element.  Only({F(x) : x \in {v}}) is F of
\* the value of v, with v evaluated once however often F uses it
Only(S) == CHOOSE x \in S : TRUE

\* All sequences without repetition over the finite set S
RECURSIVE Perms(_)
Perms(S) ==
    IF S = {} THEN {<<>>}
    ELSE UNION {{<<x>> \o p : p \in Perms(S \ {x})} : x \in S}

-----------------------------------------------------------------------------
(* upstair_type: messages *)

Message(commit_at, payload) == [commit_at |-> commit_at, payload |-> payload]

-----------------------------------------------------------------------------
(* simulation.rs: the comms fabric.  A channel is named <<owner, topic>>:   *)
(* the receiver the owner got from subscribe_topic (owner a module) or     *)
(* from get_topic_reader (owner "engine").  Handles are slots into the     *)
(* module's own read_topics / write_topics, as in the program.  received,  *)
(* published and log are history: what each receiver has handed out, what  *)
(* was published on each topic, and the topics of the calls of publish in  *)
(* the order they were made.                                               *)

ENGINE == "engine"

\* SimulationCommsSystem::default
NewCommsSystem ==
    [topics |-> <<>>,
     topic_updated_at |-> <<>>,
     destination |-> <<>>,
     read_topics |-> <<>>,
     write_topics |-> <<>>,
     topic_publisher |-> <<>>,
     mailbox |-> <<>>,
     received |-> <<>>,
     published |-> <<>>,
     log |-> <<>>,
     is_world_running |-> TRUE]

\* SimulationCommsSystemInner::get_or_create_topic
get_or_create_topic(c, name) ==
    IF name \in Range(c.topics) THEN c
    ELSE [c EXCEPT !.topics = Append(@, name),
                   !.topic_updated_at = @ @@ (name :> UNIX_EPOCH),
                   !.destination = @ @@ (name :> <<>>),
                   !.published = @ @@ (name :> <<>>)]

\* SimulationCommsSystemInner::create_module
create_module(c, m) ==
    [c EXCEPT !.read_topics = @ @@ (m :> <<>>),
              !.write_topics = @ @@ (m :> <<>>)]

\* SimulationCommsSystemInner::subscribe_topic, with the channel it creates
subscribe_topic(c, m, topic) ==
    [c EXCEPT !.read_topics[m] = Append(@, topic),
              !.destination[topic] = Append(@, <<m, topic>>),
              !.mailbox = @ @@ (<<m, topic>> :> <<>>),
              !.received = @ @@ (<<m, topic>> :> <<>>)]

\* SimulationCommsSystemInner::publish_topic
publish_topic(c, m, topic) ==
    [c EXCEPT !.write_topics[m] = Append(@, topic)]

\* The ReadTopicHandle / WriteTopicHandle the last registration returned
LastReadHandle(c, m) == [slot |-> Len(c.read_topics[m]) - 1]
LastWriteHandle(c, m) == [slot |-> Len(c.write_topics[m]) - 1]

\* SimulationCommsSystem::get_topic_reader
get_topic_reader(c, topic) ==
    [c EXCEPT !.destination[topic] = Append(@, <<ENGINE, topic>>),
              !.mailbox = @ @@ (<<ENGINE, topic>> :> <<>>),
              !.received = @ @@ (<<ENGINE, topic>> :> <<>>)]

\* SimulationModuleCommsBuilder::build: the module's publishers are clones
\* of the topics' destination lists as they are at this moment
BuildModuleComms(c, m) ==
    [c EXCEPT !.topic_publisher = @ @@
        (m :> [s \in 1..Len(c.write_topics[m]) |->
                  [topic |-> c.write_topics[m][s],
                   destination |-> c.destination[c.write_topics[m][s]]]])]

\* A publish that reaches only the first destination of the topic
SendFirst(mailbox, dests, msg) ==
    IF dests = <<>> THEN mailbox
    ELSE [mailbox EXCEPT ![Head(dests)] = Append(@, msg)]

\* The loop of publish over the topic's destinations
RECURSIVE SendAll(_, _, _)
SendAll(mailbox, dests, msg) ==
    IF dests = <<>> THEN mailbox
    ELSE SendAll([mailbox EXCEPT ![Head(dests)] = Append(@, msg)],
                 Tail(dests), msg)

\* A publish that leaves the topic's last_updated_at as it was
PublishUnstamped(c, m, handle, msg) ==
    LET writer == c.topic_publisher[m][handle.slot + 1] IN
    [c EXCEPT !.mailbox = SendAll(@, writer.destination, msg),
              !.published[writer.topic] = Append(@, msg),
              !.log = Append(@, writer.topic)]

\* SimulationModuleComms::publish
Publish(c, m, handle, msg) ==
    LET writer == c.topic_publisher[m][handle.slot + 1] IN
    [c EXCEPT !.mailbox = SendAll(@, writer.destination, msg),
              !.topic_updated_at[writer.topic] = msg.commit_at,
              !.published[writer.topic] = Append(@, msg),
              !.log = Append(@, writer.topic)]

\* The channel behind a module's ReadTopicHandle
Reader(c, m, handle) == <<m, c.read_topics[m][handle.slot + 1]>>

\* SimulationModuleComms::receive: try_recv().ok()
ReceiveMsg(c, m, handle) ==
    IF c.mailbox[Reader(c, m, handle)] = <<>> THEN None
    ELSE Head(c.mailbox[Reader(c, m, handle)])

ReceiveComms(c, m, handle) ==
    LET ch == Reader(c, m, handle) IN
    IF c.mailbox[ch] = <<>> THEN c
    ELSE [c EXCEPT !.mailbox[ch] = Tail(@),
                   !.received[ch] = Append(@, Head(c.mailbox[ch]))]

\* A request_terminate that leaves the flag as it is
request_terminate_ignored(c) == c

\* SimulationModuleComms::request_terminate
request_terminate(c) == [c EXCEPT !.is_world_running = FALSE]

-----------------------------------------------------------------------------
(* binance_republisher.rs *)

REPUBLISHER == "binance_republisher"

\* make_binance_tick / ParseFromCsvFile: the rows of the files as payloads;
\* the republisher stamps its one symbol on every row
TradeTick(row) ==
    [type |-> "BinanceTradeTick", id |-> row.id, price |-> row.price,
     qty |-> row.qty, time |-> row.time,
     is_buyer_maker |-> row.is_buyer_maker, symbol |-> SYMBOL]

BookTicker(row) ==
    [type |-> "BinanceBookTicker", update_id |-> row.update_id,
     best_bid_price |-> row.best_bid_price,
     best_ask_price |-> row.best_ask_price,
     event_time |-> row.event_time, symbol |-> SYMBOL]

\* BinanceRepublisherBuilder::init_comm and build: the two channels hold
\* the parsed rows of the files, in file order
NewRepublisher(handle, trades, tickers) ==
    [write_market_data_handle |-> handle,
     trade_rx |-> [i \in 1..Len(trades) |-> TradeTick(trades[i])],
     bookticker_rx |-> [i \in 1..Len(tickers) |-> BookTicker(tickers[i])],
     peeking_tick |-> None,
     peeking_tick_time |-> UNIX_EPOCH]

\* A comparison that never takes the trade while a book ticker waits
TradeNeverFirst(trade_tick, bookticker) == FALSE

\* A comparison that takes the trade also when the two times are equal
TradeGoesFirstOnTie(trade_tick, bookticker) ==
    trade_tick.time <= bookticker.event_time

\* The comparison of BinanceRepublisher::next_tick when both streams have
\* a next element: the trade is taken when its time is strictly smaller
TradeGoesFirst(trade_tick, bookticker) ==
    trade_tick.time < bookticker.event_time

\* BinanceRepublisher::next_tick
next_tick(r) ==
    IF r.trade_rx = <<>> /\ r.bookticker_rx = <<>> THEN
        [r EXCEPT !.peeking_tick = None]
    ELSE IF r.trade_rx = <<>> THEN
        [r EXCEPT !.peeking_tick = Head(r.bookticker_rx),
                  !.peeking_tick_time = UNIX_EPOCH + Head(r.bookticker_rx).event_time,
                  !.bookticker_rx = Tail(@)]
    ELSE IF r.bookticker_rx = <<>> THEN
        [r EXCEPT !.peeking_tick = Head(r.trade_rx),
                  !.peeking_tick_time = UNIX_EPOCH + Head(r.trade_rx).time,
                  !.trade_rx = Tail(@)]
    ELSE IF TradeGoesFirst(Head(r.trade_rx), Head(r.bookticker_rx)) THEN
        [r EXCEPT !.peeking_tick = Head(r.trade_rx),
                  !.peeking_tick_time = UNIX_EPOCH + Head(r.trade_rx).time,
                  !.trade_rx = Tail(@)]
    ELSE
        [r EXCEPT !.peeking_tick = Head(r.bookticker_rx),
                  !.peeking_tick_time = UNIX_EPOCH + Head(r.bookticker_rx).event_time,
                  !.bookticker_rx = Tail(@)]

\* A start that peeks nothing
RepublisherStartIdle(r) == r

\* BinanceRepublisher::start
RepublisherStart(r) == next_tick(r)

\* A guard that holds back every peek whose time is not the present one,
\* the overdue ones too
PeekNotNow(r, now) == r.peeking_tick_time # now

\* The guard of one_iteration's loop: the peek is not yet due
PeekNotDue(r, now) == r.peeking_tick_time > now

\* A header stamped with the epoch instead of the time of the peek
RepublisherCommitAtEpoch(r) == UNIX_EPOCH

\* The header the republisher gives the message of its peek
RepublisherCommitAt(r) == r.peeking_tick_time

\* What a handler gives back: the module after, the comms after, and
\* ok = FALSE when the handler panicked
Result(self, c, ok) == [self |-> self, c |-> c, ok |-> ok]

\* One turn of one_iteration's loop that publishes: the peek is published
\* and the next tick is peeked
PublishPeek(res) ==
    Result(next_tick([res.self EXCEPT !.peeking_tick = None]),
           Publish(res.c, REPUBLISHER, res.self.write_market_data_handle,
                   Message(RepublisherCommitAt(res.self), res.self.peeking_tick)),
           TRUE)

\* BinanceRepublisher::one_iteration, from the result of the turns so far
RECURSIVE RepublisherIteration(_, _)
RepublisherIteration(res, now) ==
    LET AfterPublish(r) ==
            IF r.self.peeking_tick = None
            THEN Result(r.self, request_terminate(r.c), TRUE)
            ELSE RepublisherIteration(r, now)
    IN  IF PeekNotDue(res.self, now) \/ res.self.peeking_tick = None THEN res
        ELSE Only({AfterPublish(r) : r \in {PublishPeek(res)}})

\* ModuleCommsBuilder::get_topic for each name
RECURSIVE GetTopics(_, _)
GetTopics(c, names) ==
    IF names = <<>> THEN c
    ELSE Only({GetTopics(c1, rest)
               : c1 \in {get_or_create_topic(c, Head(names))},
                 rest \in {Tail(names)}})

\* A builder's init_comm after its get_topic calls: the subscribe_topic and
\* publish_topic calls in order, each handle kept in the builder's field
RECURSIVE RegisterTopics(_, _, _)
RegisterTopics(res, m, ops) ==
    LET Registered(c, op) ==
            Result([res.self EXCEPT ![op.field] =
                        IF op.subscribe THEN LastReadHandle(c, m)
                        ELSE LastWriteHandle(c, m)],
                   c, TRUE)
        Register(op) ==
            Only({Registered(c, op)
                  : c \in {IF op.subscribe
                           THEN subscribe_topic(res.c, m, op.topic)
                           ELSE publish_topic(res.c, m, op.topic)}})
    IN  IF ops = <<>> THEN res
        ELSE Only({RegisterTopics(r, m, rest)
                   : r \in {Register(Head(ops))}, rest \in {Tail(ops)}})

Subscribes(topic, field) ==
    [subscribe |-> TRUE, topic |-> topic, field |-> field]
Publishes(topic, field) ==
    [subscribe |-> FALSE, topic |-> topic, field |-> field]

\* BinanceRepublisherBuilder::init_comm
RepublisherInitComm(r, c0) ==
    Only({RegisterTopics(res, REPUBLISHER,
            <<Publishes("market_data", "write_market_data_handle")>>)
          : res \in {Result(r, GetTopics(c0, <<"market_data">>), TRUE)}})

\* BinanceRepublisher::next_iteration_start_at
RepublisherNextIterationStartAt(r) ==
    IF r.peeking_tick = None THEN None
    ELSE [type |-> "Some", time |-> r.peeking_tick_time]

-----------------------------------------------------------------------------
(* account.rs and symbol_info *)

NewAssetBalance == [balance |-> 0, locked |-> 0]

\* Account::get_or_create
get_or_create(account, asset) ==
    IF asset \in DOMAIN account THEN account
    ELSE account @@ (asset :> NewAssetBalance)

\* A test of try_lock_balance that looks at the balance alone
CanLockOfBalance(b, amount) == b.balance >= amount

\* The test of AssetBalance::try_lock_balance
CanLock(b, amount) == b.balance >= b.locked + amount

\* AssetBalance::try_lock_balance: the balance after
try_lock_balance(b, amount) ==
    IF CanLock(b, amount) THEN [b EXCEPT !.locked = @ + amount] ELSE b

\* An unlock_balance that leaves the amount locked
unlock_balance_kept(b, amount) == b

\* AssetBalance::unlock_balance, and its assertion (1e-8 is below one unit)
UnlockAsserts(b, amount) == b.locked >= amount
unlock_balance(b, amount) == [b EXCEPT !.locked = @ - amount]

\* A consume_locked that takes the amount off the locked part only
consume_locked_only(b, amount) == [b EXCEPT !.locked = @ - amount]

\* AssetBalance::consume_locked, and its assertion (-0.1 is below one unit)
ConsumeAsserts(b, amount) == b.locked - amount >= 0
consume_locked(b, amount) ==
    [b EXCEPT !.locked = @ - amount, !.balance = @ - amount]

\* AssetBalance::add_balance
add_balance(b, amount) == [b EXCEPT !.balance = @ + amount]

\* main.rs: with_symbol_config("BTCUSDT", "BTC", "USDT", 0.0000)
SymbolInfoManager ==
    (SYMBOL :> [base_asset |-> BASE_ASSET, quote_asset |-> QUOTE_ASSET,
                fee_rate |-> 0])

\* symbol_trade.rs: calc_trade_result
calc_trade_result(symbol_info, price, qty, is_buy) ==
    LET pay_qty == IF is_buy THEN qty * price ELSE qty
        pay_asset == IF is_buy THEN symbol_info.quote_asset
                     ELSE symbol_info.base_asset
        gross == IF is_buy THEN qty ELSE qty * price
        recv_asset == IF is_buy THEN symbol_info.base_asset
                      ELSE symbol_info.quote_asset
        fee_qty == gross * symbol_info.fee_rate
    IN  [pay_asset |-> pay_asset, recv_asset |-> recv_asset,
         fee_asset |-> recv_asset, pay_qty |-> pay_qty,
         recv_qty |-> gross - fee_qty, fee_qty |-> fee_qty]

-----------------------------------------------------------------------------
(* simple_market.rs *)

\* SimpleMarket::new
NewSimpleMarket ==
    [open_orders |-> <<>>, market_trade_buf |-> <<>>, last_trade_price |-> 0]

\* A comparator that looks at the price alone
OrderBeforeByPrice(a, b) == a.price < b.price

\* The comparator of add_order's sort_by: a sorts strictly before b
OrderBefore(a, b) ==
    IF a.price = b.price THEN a.submit_at < b.submit_at
    ELSE a.price < b.price

\* Vec::sort_by is stable: an element goes behind those it is not before
RECURSIVE InsertStable(_, _)
InsertStable(sorted, o) ==
    IF sorted = <<>> THEN <<o>>
    ELSE IF OrderBefore(o, sorted[Len(sorted)])
         THEN Only({Append(InsertStable(front, o), sorted[Len(sorted)])
                    : front \in {SubSeq(sorted, 1, Len(sorted) - 1)}})
         ELSE Append(sorted, o)

RECURSIVE StableSort(_)
StableSort(s) ==
    IF s = <<>> THEN <<>>
    ELSE LET Sorted(front) ==
                Only({InsertStable(sorted, s[Len(s)])
                      : sorted \in {StableSort(front)}})
         IN  Only({Sorted(front) : front \in {SubSeq(s, 1, Len(s) - 1)}})

\* An add_order that does not look for the id in the book
add_order_any_id(market, order) ==
    IF order.quantity <= 0 THEN market
    ELSE [market EXCEPT !.open_orders =
                Only({StableSort(s) : s \in {Append(@, order)}})]

\* An add_order that does not look at the quantity
add_order_any_quantity(market, order) ==
    IF \E i \in 1..Len(market.open_orders) :
            market.open_orders[i].order_id = order.order_id
    THEN market
    ELSE [market EXCEPT !.open_orders =
                Only({StableSort(s) : s \in {Append(@, order)}})]

\* SimpleMarket::add_order
add_order(market, order) ==
    IF order.quantity <= 0 THEN market
    ELSE IF \E i \in 1..Len(market.open_orders) :
                market.open_orders[i].order_id = order.order_id
         THEN market
         ELSE [market EXCEPT !.open_orders =
                    Only({StableSort(s) : s \in {Append(@, order)}})]

\* A get_order that finds the first resting order whatever the id
get_order_any(market, order_id) ==
    IF market.open_orders = <<>> THEN None ELSE market.open_orders[1]

\* SimpleMarket::get_order: the first resting order with the id, or None
get_order(market, order_id) ==
    LET hits == {i \in 1..Len(market.open_orders) :
                    market.open_orders[i].order_id = order_id}
    IN  IF hits = {} THEN None
        ELSE market.open_orders[CHOOSE i \in hits : \A j \in hits : i <= j]

\* SimpleMarket::cancel_order
cancel_order(market, order_id) ==
    LET Keep(o) == o.order_id # order_id
    IN  [market EXCEPT !.open_orders = SelectSeq(@, Keep)]

\* SimpleMarket::add_market_trade
add_market_trade(market, trade) ==
    [market EXCEPT !.last_trade_price = trade.price,
                   !.market_trade_buf = Append(@, trade)]

\* The test of try_match_market's two loops: the order is hit by the trade
Crosses(order, trade) ==
    IF trade.is_buyer_maker
    THEN order.side = "Buy" /\ order.price >= trade.price
    ELSE order.side = "Sell" /\ order.price <= trade.price

\* A walk that starts from the lowest price whatever the trade
VisitFromLowest(n, trade) == [k \in 1..n |-> k]

\* The order try_match_market visits the book in: from the highest price
\* for an active sell, from the lowest for an active buy
VisitOrder(n, trade) ==
    IF trade.is_buyer_maker THEN [k \in 1..n |-> n + 1 - k]
    ELSE [k \in 1..n |-> k]

\* What a crossed order is filled by, of the quantity the trade has left
FillQuantity(order, remain_quantity) ==
    Min(order.quantity - order.filled, remain_quantity)

\* A MatchEvent at the price of the trade that hit the order
MatchEventAtTradePrice(order, fill_quantity, trade) ==
    [price |-> trade.price, quantity |-> fill_quantity,
     event_at |-> trade.trade_at, order_id |-> order.order_id,
     side |-> order.side,
     reamin_qty_to_fill |-> order.quantity - (order.filled + fill_quantity)]

\* The MatchEvent of an order filled by fill_quantity
MatchEvent(order, fill_quantity, trade) ==
    [price |-> order.price, quantity |-> fill_quantity,
     event_at |-> trade.trade_at, order_id |-> order.order_id,
     side |-> order.side,
     reamin_qty_to_fill |-> order.quantity - (order.filled + fill_quantity)]

\* One of the two inner loops of try_match_market, from position visit on;
\* acc holds the book and the events so far
RECURSIVE MatchWalk(_, _, _, _)
MatchWalk(acc, visit, remain_quantity, trade) ==
    LET Fill(i, fill_quantity) ==
            [orders |-> [acc.orders EXCEPT ![i].filled = @ + fill_quantity],
             events |-> Append(acc.events,
                            MatchEvent(acc.orders[i], fill_quantity, trade))]
        Hit(i, fill_quantity) ==
            IF remain_quantity - fill_quantity <= 0
            THEN Fill(i, fill_quantity)
            ELSE Only({MatchWalk(filled, rest, remain, trade)
                       : filled \in {Fill(i, fill_quantity)},
                         rest \in {Tail(visit)},
                         remain \in {remain_quantity - fill_quantity}})
    IN  IF visit = <<>> THEN acc
        ELSE IF ~Crosses(acc.orders[Head(visit)], trade)
             THEN Only({MatchWalk(acc, rest, remain_quantity, trade)
                        : rest \in {Tail(visit)}})
             ELSE Only({Hit(i, fill_quantity)
                        : i \in {Head(visit)},
                          fill_quantity \in
                            {FillQuantity(acc.orders[Head(visit)],
                                          remain_quantity)}})

\* A retain that keeps every order
KeepsAll(o) == TRUE

\* The orders try_match_market keeps after a trade
StillOpen(o) == o.filled < o.quantity

\* The body of try_match_market's outer loop for one trade
MatchTrade(acc, trade) ==
    LET Retained(r) ==
            [orders |-> SelectSeq(r.orders, StillOpen), events |-> r.events]
    IN  Only({Retained(r)
              : r \in {Only({MatchWalk(acc, visit, trade.quantity, trade)
                    : visit \in {VisitOrder(Len(acc.orders), trade)}})}})

RECURSIVE MatchTrades(_, _)
MatchTrades(acc, trades) ==
    IF trades = <<>> THEN acc
    ELSE Only({MatchTrades(after, rest)
               : after \in {Only({MatchTrade(acc, trade)
                                  : trade \in {Head(trades)}})},
                 rest \in {Tail(trades)}})

\* SimpleMarket::try_match_market: the market after, and the events
try_match_market(market) ==
    LET Matched(r) ==
            [market |-> [market EXCEPT !.open_orders = r.orders,
                                       !.market_trade_buf = <<>>],
             events |-> r.events]
    IN  Only({Matched(r)
              : r \in {Only({MatchTrades(acc, trades)
                    : acc \in {[orders |-> market.open_orders,
                                events |-> <<>>]},
                      trades \in {market.market_trade_buf}})}})

-----------------------------------------------------------------------------
(* market_agent.rs.  A handler gives [self, c, ok]: the module after, the   *)
(* comms after, and ok = FALSE when it panicked (an assertion of account.rs *)
(* or "quantity should be positive"), with the effects up to the panic.    *)
(* MarketStats only counts for the report of terminate() and is left out.  *)

AGENT == "market_agent"

\* MarketAgentBuilder::default, with main.rs's symbol manager and balances
NewMarketAgent ==
    [market_data_topic |-> None, order_topic |-> None,
     order_result_topic |-> None, account_topic |-> None,
     market_by_symbol |-> <<>>,
     account |-> <<>>, fee_account |-> <<>>,
     symobl_info_manager |-> SymbolInfoManager,
     initial_balance |-> (QUOTE_ASSET :> INITIAL_QUOTE) @@
                         (BASE_ASSET :> INITIAL_BASE),
     last_account_summary_send_time |-> UNIX_EPOCH]

\* MarketAgentBuilder::init_comm
MarketAgentInitComm(a, c0) ==
    Only({RegisterTopics(res, AGENT,
            <<Subscribes("market_data", "market_data_topic"),
              Subscribes("order", "order_topic"),
              Publishes("order_result", "order_result_topic"),
              Publishes("account", "account_topic")>>)
          : res \in {Result(a, GetTopics(c0, <<"market_data", "order",
                                "order_result", "account">>), TRUE)}})

\* MarketAgent::start: the initial balances are added (in any order)
RECURSIVE AddBalances(_, _, _)
AddBalances(account, balances, assets) ==
    IF assets = {} THEN account
    ELSE LET Add(asset) ==
                Only({AddBalances(acc, balances, rest)
                      : acc \in {[get_or_create(account, asset) EXCEPT
                                    ![asset] = add_balance(@, balances[asset])]},
                        rest \in {assets \ {asset}}})
         IN  Only({Add(asset) : asset \in {CHOOSE x \in assets : TRUE}})

MarketAgentStart(a) ==
    [a EXCEPT !.account = AddBalances(@, a.initial_balance,
                                      DOMAIN a.initial_balance)]

\* An ingest_market_trade_data that leaves the trade's time at the epoch
ingest_market_trade_data_undated(a, data) ==
    IF data.payload.type = "BinanceTradeTick" THEN
        LET tick == data.payload
            markets == IF tick.symbol \in DOMAIN a.market_by_symbol
                       THEN a.market_by_symbol
                       ELSE a.market_by_symbol @@ (tick.symbol :> NewSimpleMarket)
        IN  [a EXCEPT !.market_by_symbol =
                [markets EXCEPT ![tick.symbol] = add_market_trade(@,
                    [price |-> tick.price, quantity |-> tick.qty,
                     trade_at |-> UNIX_EPOCH,
                     is_buyer_maker |-> tick.is_buyer_maker])]]
    ELSE a

\* MarketAgent::ingest_market_trade_data
ingest_market_trade_data(a, data) ==
    IF data.payload.type = "BinanceTradeTick" THEN
        LET tick == data.payload
            markets == IF tick.symbol \in DOMAIN a.market_by_symbol
                       THEN a.market_by_symbol
                       ELSE a.market_by_symbol @@ (tick.symbol :> NewSimpleMarket)
        IN  [a EXCEPT !.market_by_symbol =
                [markets EXCEPT ![tick.symbol] = add_market_trade(@,
                    [price |-> tick.price, quantity |-> tick.qty,
                     trade_at |-> UNIX_EPOCH + tick.time,
                     is_buyer_maker |-> tick.is_buyer_maker])]]
    ELSE a

\* The amount process_order_request locks, and the asset it locks it of
PayAsset(symbol_info, side) ==
    IF side = "Buy" THEN symbol_info.quote_asset ELSE symbol_info.base_asset
PayAmount(req) ==
    IF req.side = "Buy" THEN req.price * req.quantity ELSE req.quantity

\* MarketAgent::process_order_request: [self, ok], ok = FALSE for Err
process_order_request(a, req, header) ==
    LET Rest(a2) ==
            IF req.symbol \notin DOMAIN a2.market_by_symbol
            THEN [self |-> a2, ok |-> FALSE]
            ELSE [self |-> [a2 EXCEPT !.market_by_symbol[req.symbol] =
                        add_order(@,
                            [submit_at |-> header.commit_at,
                             side |-> req.side,
                             order_id |-> req.client_order_id,
                             price |-> req.price,
                             quantity |-> req.quantity,
                             filled |-> 0])],
                  ok |-> TRUE]
        Lock(a1, pay_asset) ==
            IF ~CanLock(a1.account[pay_asset], PayAmount(req))
            THEN [self |-> a1, ok |-> FALSE]
            ELSE Only({Rest(a2)
                       : a2 \in {[a1 EXCEPT !.account[pay_asset] =
                                    try_lock_balance(@, PayAmount(req))]}})
        Pay(pay_asset) ==
            Only({Lock(a1, pay_asset)
                  : a1 \in {[a EXCEPT !.account =
                                    get_or_create(@, pay_asset)]}})
    IN  IF req.symbol \notin DOMAIN a.symobl_info_manager
        THEN [self |-> a, ok |-> FALSE]
        ELSE Only({Pay(pay_asset)
                   : pay_asset \in {PayAsset(a.symobl_info_manager[req.symbol],
                                             req.side)}})

\* The amount an order locked when it came, whatever it was filled by
LockedAmountWhole(order) ==
    IF order.side = "Buy" THEN order.price * order.quantity
    ELSE order.quantity

\* The amount process_cancel_order_request unlocks for a resting order
LockedAmount(order) ==
    IF order.side = "Buy" THEN order.price * (order.quantity - order.filled)
    ELSE order.quantity - order.filled

\* MarketAgent::process_cancel_order_request: [self, ok, panic], ok = FALSE
\* for Err and panic = TRUE when unlock_balance's assertion fails
process_cancel_order_request(a, cancel_req) ==
    LET Unlock(a1, locked_asset, locked_amt) ==
            IF ~UnlockAsserts(a1.account[locked_asset], locked_amt)
            THEN [self |-> a1, ok |-> FALSE, panic |-> TRUE]
            ELSE [self |-> [a1 EXCEPT
                    !.account[locked_asset] = unlock_balance(@, locked_amt),
                    !.market_by_symbol[cancel_req.symbol] =
                        cancel_order(@, cancel_req.client_order_id)],
                  ok |-> TRUE, panic |-> FALSE]
        Found(order, locked_asset) ==
            Only({Unlock(a1, locked_asset, locked_amt)
                  : a1 \in {[a EXCEPT !.account =
                                    get_or_create(@, locked_asset)]},
                    locked_amt \in {LockedAmount(order)}})
        Cancel(order) ==
            IF order = None
            THEN [self |-> a, ok |-> FALSE, panic |-> FALSE]
            ELSE Only({Found(order, locked_asset)
                       : locked_asset \in
                            {PayAsset(a.symobl_info_manager[cancel_req.symbol],
                                      order.side)}})
    IN  IF \/ cancel_req.symbol \notin DOMAIN a.symobl_info_manager
           \/ cancel_req.symbol \notin DOMAIN a.market_by_symbol
        THEN [self |-> a, ok |-> FALSE, panic |-> FALSE]
        ELSE Only({Cancel(order)
                   : order \in {get_order(a.market_by_symbol[cancel_req.symbol],
                                          cancel_req.client_order_id)}})

OrderResult(symbol, at, client_order_id, filled_quantity, price, is_buy, status) ==
    [type |-> "OrderResult", symbol |-> symbol, at |-> at,
     client_order_id |-> client_order_id,
     filled_quantity |-> filled_quantity, price |-> price,
     is_buy |-> is_buy, status |-> status]

\* MarketAgent::ingest_order_request
ingest_order_request(a, data, c, now) ==
    LET Reply(r, req) ==
            Result(r.self,
                   Publish(c, AGENT, a.order_result_topic,
                        Message(now, OrderResult(req.symbol, now,
                            req.client_order_id, 0, req.price,
                            req.side = "Buy",
                            IF r.ok THEN "New" ELSE "Rejected"))),
                   TRUE)
        ReplyCancel(r, cancel_req) ==
            IF r.panic THEN Result(r.self, c, FALSE)
            ELSE IF r.ok THEN
                Result(r.self,
                       Publish(c, AGENT, a.order_result_topic,
                            Message(now, OrderResult(cancel_req.symbol, now,
                                cancel_req.client_order_id, 0, 0, FALSE,
                                "Canceled"))),
                       TRUE)
            ELSE Result(r.self, c, TRUE)
    IN  CASE data.payload.type = "OrderRequest" ->
                IF data.payload.price <= 0 THEN Result(a, c, TRUE)
                ELSE Only({Reply(r, data.payload)
                           : r \in {process_order_request(a, data.payload,
                                                          data)}})
          [] data.payload.type = "CancelOrderRequest" ->
                Only({ReplyCancel(r, data.payload)
                      : r \in {process_cancel_order_request(a, data.payload)}})
          [] OTHER -> Result(a, c, TRUE)

\* The first loop of MarketAgent::sync
RECURSIVE AgentDrainMarketData(_)
AgentDrainMarketData(res) ==
    LET Ingest(msg) ==
            Only({AgentDrainMarketData(r)
                  : r \in {Result(ingest_market_trade_data(res.self, msg),
                            ReceiveComms(res.c, AGENT,
                                         res.self.market_data_topic),
                            TRUE)}})
    IN  IF ReceiveMsg(res.c, AGENT, res.self.market_data_topic) = None
        THEN res
        ELSE Only({Ingest(msg)
                   : msg \in {ReceiveMsg(res.c, AGENT,
                                         res.self.market_data_topic)}})

\* The second loop of MarketAgent::sync
RECURSIVE AgentDrainOrders(_, _)
AgentDrainOrders(res, now) ==
    IF ~res.ok \/ ReceiveMsg(res.c, AGENT, res.self.order_topic) = None
    THEN res
    ELSE Only({AgentDrainOrders(r, now)
               : r \in {Only({ingest_order_request(res.self, data, c, now)
                    : data \in {ReceiveMsg(res.c, AGENT, res.self.order_topic)},
                      c \in {ReceiveComms(res.c, AGENT,
                                          res.self.order_topic)}})}})

\* MarketAgent::sync (it returns true)
MarketAgentSync(a, c, now) ==
    Only({AgentDrainOrders(r, now)
          : r \in {Only({AgentDrainMarketData(res)
                         : res \in {Result(a, c, TRUE)}})}})

\* An AccountUpdate that carries the first of the assets only
make_account_update_for_first(account, assets) ==
    [type |-> "AccountUpdate",
     updates |-> <<[asset |-> assets[1],
                    balance |-> account[assets[1]].balance,
                    locked |-> account[assets[1]].locked]>>]

\* MarketAgent::make_account_update_for_asset
make_account_update_for_asset(account, assets) ==
    LET Entry(asset, b) ==
            [asset |-> asset, balance |-> b.balance, locked |-> b.locked]
    IN  [type |-> "AccountUpdate",
         updates |-> [i \in 1..Len(assets) |->
            Entry(assets[i],
                  IF assets[i] \in DOMAIN account THEN account[assets[i]]
                  ELSE NewAssetBalance)]]

\* MarketAgent::make_account_update: the entries come in the order the
\* HashMap iterates in, which order is here
make_account_update(account, order) ==
    make_account_update_for_asset(account, order)

\* The body of one_iteration's loop over the events of a market, for one
\* event e
AgentApplyEvent(a, c, symbol, e, now) ==
    LET Report(a2, r) ==
            Only({Result(a2,
                    Publish(c1, AGENT, a.account_topic,
                        Message(now, make_account_update_for_asset(a2.account,
                                        <<r.pay_asset, r.recv_asset>>))),
                    TRUE)
                  : c1 \in {Publish(c, AGENT, a.order_result_topic,
                        Message(now, OrderResult(symbol, now, e.order_id,
                            e.quantity, e.price, e.side = "Buy",
                            IF e.reamin_qty_to_fill <= 0 THEN "Filled"
                            ELSE "PartiallyFilled")))}})
        Receive(a2, r) ==
            IF e.quantity <= 0 THEN Result(a2, c, FALSE) ELSE Report(a2, r)
        Credit(a1, r) ==
            Only({Receive(a2, r)
                  : a2 \in {[a1 EXCEPT !.account[r.recv_asset] =
                                    add_balance(@, r.recv_qty)]}})
        Consume(a1, r) ==
            IF ~ConsumeAsserts(a1.account[r.pay_asset], r.pay_qty)
            THEN Result(a1, c, FALSE)
            ELSE Only({Credit(a2, r)
                       : a2 \in {[a1 EXCEPT !.account =
                            get_or_create([@ EXCEPT ![r.pay_asset] =
                                                consume_locked(@, r.pay_qty)],
                                          r.recv_asset)]}})
        Settle(r) ==
            Only({Consume(a1, r)
                  : a1 \in {[a EXCEPT
                        !.fee_account = [get_or_create(@, r.fee_asset)
                                            EXCEPT ![r.fee_asset] =
                                                add_balance(@, r.fee_qty)],
                        !.account = get_or_create(@, r.pay_asset)]}})
    IN  IF symbol \notin DOMAIN a.symobl_info_manager
        THEN Result(a, c, FALSE)
        ELSE Only({Settle(r)
                   : r \in {calc_trade_result(a.symobl_info_manager[symbol],
                                e.price, e.quantity, e.side = "Buy")}})

RECURSIVE AgentApplyEvents(_, _, _, _)
AgentApplyEvents(res, symbol, events, now) ==
    IF ~res.ok \/ events = <<>> THEN res
    ELSE Only({AgentApplyEvents(r, symbol, rest, now)
               : r \in {Only({AgentApplyEvent(res.self, res.c, symbol, e, now)
                              : e \in {Head(events)}})},
                 rest \in {Tail(events)}})

\* one_iteration's loop over market_by_symbol, in the order the HashMap is
\* iterated in
RECURSIVE AgentMatchMarkets(_, _, _)
AgentMatchMarkets(res, symbols, now) ==
    LET Apply(symbol, m) ==
            Only({AgentApplyEvents(r, symbol, m.events, now)
                  : r \in {Result([res.self EXCEPT
                                    !.market_by_symbol[symbol] = m.market],
                                 res.c, TRUE)}})
        Match(symbol) ==
            Only({Apply(symbol, m)
                  : m \in {try_match_market(
                                res.self.market_by_symbol[symbol])}})
    IN  IF ~res.ok \/ symbols = <<>> THEN res
        ELSE Only({AgentMatchMarkets(r, rest, now)
                   : r \in {Only({Match(symbol)
                                  : symbol \in {Head(symbols)}})},
                     rest \in {Tail(symbols)}})

\* The test of one_iteration's account summary
SummaryDue(a, now) ==
    (IF now >= a.last_account_summary_send_time
     THEN (now - a.last_account_summary_send_time) \div MILLIS_PER_SEC
     ELSE 0) > SUMMARY_INTERVAL_SECS

\* The account summary of one_iteration, the HashMap iterated in order
AgentSummary(a, c, now, order) ==
    IF SummaryDue(a, now)
    THEN Result([a EXCEPT !.last_account_summary_send_time = now],
                Publish(c, AGENT, a.account_topic,
                    Message(now, make_account_update(a.account, order))),
                TRUE)
    ELSE Result(a, c, TRUE)

\* MarketAgent::one_iteration: every outcome the iteration orders of its
\* two HashMaps allow
MarketAgentIteration(a, c, now) ==
    LET Summaries(r) ==
            IF ~r.ok THEN {r}
            ELSE {AgentSummary(r.self, r.c, now, order) :
                    order \in Perms(DOMAIN r.self.account)}
    IN  UNION {Summaries(r)
               : r \in {AgentMatchMarkets(Result(a, c, TRUE), symbols, now)
                        : symbols \in Perms(DOMAIN a.market_by_symbol)}}

\* sync, then one_iteration
MarketAgentDispatch(a, c, now) ==
    LET Iterate(s) ==
            IF ~s.ok THEN {s} ELSE MarketAgentIteration(s.self, s.c, now)
    IN  UNION {Iterate(s) : s \in {MarketAgentSync(a, c, now)}}

-----------------------------------------------------------------------------
(* stepper_world (order_tracker.rs, stepper_world.rs), pure_market_maker   *)
(* and stepper.rs.  The strategy's reservation price and spread are f64    *)
(* functions of the volatility tracker; here the two quoted prices before  *)
(* the clamp to the book ticker are any two of QuotePrices.  The debug     *)
(* sequences of the strategy (ENABLE_VOL_DEBUG) feed only terminate()'s    *)
(* file and are left out, as are the best bid / ask quantities.            *)

STEPPER == "stepper"

\* StepperWorld::default's now is SystemTime::now(), the wall clock at
\* build time: an instant after every timestamp of the tapes
WallClockNow == T0 * 1000

\* OrderTracker::default
NewOrderTracker == [orders |-> <<>>, proceed_unique_fill_report_id |-> {}]

\* An upsert_order that keeps the order it tracks under the id
upsert_order_keeps(t, order) ==
    IF order.order_id \in DOMAIN t.orders THEN t
    ELSE [t EXCEPT !.orders = @ @@ (order.order_id :> order)]

\* OrderTracker::upsert_order: the tracker after
upsert_order(t, order) ==
    [t EXCEPT !.orders =
        [id \in DOMAIN t.orders \cup {order.order_id} |->
            IF id = order.order_id THEN order ELSE t.orders[id]]]

\* OrderTracker::upsert_order: what it returns
is_new_order(t, order) == order.order_id \notin DOMAIN t.orders

\* A fill_order that does not look at the report id
fill_order_every(t, order_id, filled, unique_fill_report_id) ==
    IF order_id \in DOMAIN t.orders
    THEN [t EXCEPT !.orders[order_id].filled = @ + filled] ELSE t

\* OrderTracker::fill_order; unique_fill_report_id is None or a report id
fill_order(t, order_id, filled, unique_fill_report_id) ==
    LET Fill(t1) ==
            IF order_id \in DOMAIN t1.orders
            THEN [t1 EXCEPT !.orders[order_id].filled = @ + filled] ELSE t1
    IN  IF unique_fill_report_id = None THEN Fill(t)
        ELSE IF unique_fill_report_id.id \in t.proceed_unique_fill_report_id
             THEN t
             ELSE Fill([t EXCEPT !.proceed_unique_fill_report_id =
                            @ \cup {unique_fill_report_id.id}])

\* OrderTracker::update_fill_quantity
update_fill_quantity(t, order_id, filled) ==
    IF order_id \in DOMAIN t.orders
    THEN [t EXCEPT !.orders[order_id].filled = filled] ELSE t

\* OrderTracker::update_status
update_status(t, order_id, status) ==
    IF order_id \in DOMAIN t.orders
    THEN [t EXCEPT !.orders[order_id].status = status] ELSE t

\* OrderTracker::remove_terminated_orders
remove_terminated_orders(t) ==
    [t EXCEPT !.orders =
        [id \in {i \in DOMAIN t.orders
                    : t.orders[i].status \notin {"Canceled", "Filled"}}
            |-> t.orders[id]]]

\* OrderTracker::cancel_order
tracker_cancel_order(t, order_id) ==
    [t EXCEPT !.orders = [id \in DOMAIN t.orders \ {order_id} |-> t.orders[id]]]

\* OrderTracker::request_cancel_order
request_cancel_order(t, order_id) ==
    update_status(t, order_id, "CancelRequested")

\* StepperWorld::default
NewStepperWorld ==
    [now |-> WallClockNow, latest_market_price |-> 0,
     order_tracker |-> NewOrderTracker,
     account |-> <<>>, best_bid_price |-> 0, best_ask_price |-> 0,
     booker_tick_updated_at |-> UNIX_EPOCH,
     trade_buf |-> <<>>, wap_buf |-> <<>>, filled_event_buf |-> <<>>]

\* AmmStrategy::new
NewAmmStrategy ==
    [actions |-> <<>>, intial_position |-> 0, vol_tracker |-> None,
     uniq_quote_round |-> 0]

\* StepperBuilder::new and build
NewStepper ==
    [read_market_data_handle |-> None, read_order_result_handle |-> None,
     write_order_handle |-> None, read_account_handle |-> None,
     world |-> NewStepperWorld, last_iteration_time |-> UNIX_EPOCH,
     mm_strategy |-> NewAmmStrategy]

\* StepperBuilder::init_comm
StepperInitComm(s, c0) ==
    Only({RegisterTopics(res, STEPPER,
            <<Subscribes("market_data", "read_market_data_handle"),
              Subscribes("order_result", "read_order_result_handle"),
              Publishes("order", "write_order_handle"),
              Subscribes("account", "read_account_handle")>>)
          : res \in {Result(s, GetTopics(c0, <<"market_data", "order_result",
                                "order", "account">>), TRUE)}})

\* The mapping of order::OrderStatus to order_tracker::OrderStatus
TrackingStatus(status) ==
    CASE status = "New" -> "Open"
      [] status = "PartiallyFilled" -> "PartiallyFilled"
      [] status = "Filled" -> "Filled"
      [] OTHER -> "Canceled"

\* The entries of an AccountUpdate written into the world's account
RECURSIVE ApplyAccountUpdates(_, _)
ApplyAccountUpdates(account, updates) ==
    LET Set(u) ==
            [get_or_create(account, u.asset) EXCEPT
                ![u.asset] = [balance |-> u.balance, locked |-> u.locked]]
    IN  IF updates = <<>> THEN account
        ELSE Only({ApplyAccountUpdates(after, rest)
                   : after \in {Only({Set(u) : u \in {Head(updates)}})},
                     rest \in {Tail(updates)}})

\* Stepper::ingest_message: [world, ok], ok = FALSE for unimplemented!()
ingest_message(w, data) ==
    LET p == data.payload IN
    CASE p.type = "BinanceTradeTick" ->
            [world |-> [w EXCEPT !.latest_market_price = p.price,
                                 !.trade_buf = Append(@, p)],
             ok |-> TRUE]
      [] p.type = "OrderRequest" -> [world |-> w, ok |-> TRUE]
      [] p.type = "CancelOrderRequest" -> [world |-> w, ok |-> FALSE]
      [] p.type = "OrderResult" ->
            [world |-> [w EXCEPT
                !.order_tracker = update_status(
                    update_fill_quantity(@, p.client_order_id,
                                         p.filled_quantity),
                    p.client_order_id, TrackingStatus(p.status)),
                !.filled_event_buf =
                    Append(@, <<p.client_order_id, p.filled_quantity>>)],
             ok |-> TRUE]
      [] p.type = "AccountUpdate" ->
            [world |-> [w EXCEPT !.account = ApplyAccountUpdates(@, p.updates)],
             ok |-> TRUE]
      [] p.type = "BinanceBookTicker" ->
            [world |-> [w EXCEPT
                !.booker_tick_updated_at = w.now,
                !.best_ask_price = p.best_ask_price,
                !.best_bid_price = p.best_bid_price,
                !.wap_buf = Append(@, data.commit_at - UNIX_EPOCH)],
             ok |-> TRUE]

\* One of the three loops of Stepper::sync
RECURSIVE StepperDrain(_, _)
StepperDrain(res, handle) ==
    LET Ingested(r) ==
            Result([res.self EXCEPT !.world = r.world],
                   ReceiveComms(res.c, STEPPER, handle), r.ok)
    IN  IF ~res.ok \/ ReceiveMsg(res.c, STEPPER, handle) = None THEN res
        ELSE Only({StepperDrain(after, handle)
                   : after \in {Only({Ingested(r)
                        : r \in {Only({ingest_message(res.self.world, data)
                            : data \in {ReceiveMsg(res.c, STEPPER,
                                                   handle)}})}})}})

\* Stepper::sync (it returns true)
StepperSync(s, c) ==
    LET Drain(res, handle) ==
            Only({StepperDrain(r, handle) : r \in {res}})
    IN  Drain(Drain(Drain(Result(s, c, TRUE), s.read_market_data_handle),
                    s.read_order_result_handle),
              s.read_account_handle)

PlaceOrder(order) == [type |-> "PlaceOrder", order |-> order]
CancelOrder(order_id) == [type |-> "CancelOrder", order_id |-> order_id]

\* AmmStrategy::update_vol: the tracker exists once a run saw a book ticker
update_vol(st, w) ==
    IF st.vol_tracker = None /\ w.wap_buf # <<>>
    THEN [st EXCEPT !.vol_tracker = [type |-> "Some"]] ELSE st

\* The orders the last loop of AmmStrategy::run asks to cancel
Expired(w) ==
    {id \in DOMAIN w.order_tracker.orders :
        /\ w.order_tracker.orders[id].status # "CancelRequested"
        /\ w.now >= w.order_tracker.orders[id].created_at
        /\ w.now - w.order_tracker.orders[id].created_at
                > MM_ORDER_EXPIRE_MILLSECONDS}

\* The two orders AmmStrategy::run quotes, from the prices before the clamp
Quotes(st, w, buy_price, sell_price) ==
    <<[order_id |-> <<"B", st.uniq_quote_round>>,
       price |-> Min(buy_price, w.best_bid_price), side |-> "Buy",
       quantity |-> MM_QUANTITY, filled |-> 0, status |-> "Open",
       created_at |-> w.now],
      [order_id |-> <<"S", st.uniq_quote_round>>,
       price |-> Max(sell_price, w.best_ask_price), side |-> "Sell",
       quantity |-> MM_QUANTITY, filled |-> 0, status |-> "Open",
       created_at |-> w.now]>>

\* AmmStrategy::run with quote the prices the f64 arithmetic gives before
\* the clamp: every strategy after, for the orders the tracker's HashMap
\* may iterate in
StrategyRun(st0, w, quote) ==
    LET Quote(st2, quotes) ==
            IF \/ w.best_ask_price = 0 \/ w.best_bid_price = 0
               \/ w.latest_market_price = 0 \/ st2.vol_tracker = None
            THEN {st2}
            ELSE {[st2 EXCEPT
                    !.uniq_quote_round = @ + 1,
                    !.actions =
                        <<PlaceOrder(quotes[1]), PlaceOrder(quotes[2])>> \o
                        [i \in 1..Len(ids) |-> CancelOrder(ids[i])]]
                  : ids \in Perms(Expired(w))}
        Gate(st1) ==
            IF st1.intial_position = 0 /\ BASE_ASSET \notin DOMAIN w.account
            THEN {st1}
            ELSE IF st1.intial_position = 0
                 THEN UNION {Quote(st2, quotes)
                             : st2 \in {[st1 EXCEPT !.intial_position =
                                            w.account[BASE_ASSET].balance]},
                               quotes \in {Quotes(st1, w, quote[1], quote[2])}}
                 ELSE UNION {Quote(st1, quotes)
                             : quotes \in {Quotes(st1, w, quote[1], quote[2])}}
    IN  UNION {Gate(st1) : st1 \in {update_vol([st0 EXCEPT !.actions = <<>>], w)}}

OrderRequest(symbol, order) ==
    [type |-> "OrderRequest", symbol |-> symbol, side |-> order.side,
     price |-> order.price, quantity |-> order.quantity,
     client_order_id |-> order.order_id, trade_type |-> "Limit",
     time_in_force |-> "GoodTilCancelled", cancel_order_id |-> None]

CancelOrderRequest(symbol, order_id) ==
    [type |-> "CancelOrderRequest", symbol |-> symbol,
     client_order_id |-> order_id]

\* The loop of Stepper::one_iteration over the strategy's actions
RECURSIVE RunActions(_, _)
RunActions(res, actions) ==
    LET Do(action) ==
            IF action.type = "CancelOrder" THEN
                Result([res.self EXCEPT !.world.order_tracker =
                            request_cancel_order(@, action.order_id)],
                       Publish(res.c, STEPPER, res.self.write_order_handle,
                            Message(res.self.world.now,
                                CancelOrderRequest(SYMBOL, action.order_id))),
                       TRUE)
            ELSE
                Result([res.self EXCEPT !.world.order_tracker =
                            upsert_order(@, [action.order EXCEPT
                                !.filled = 0, !.status = "Open",
                                !.created_at = res.self.world.now])],
                       Publish(res.c, STEPPER, res.self.write_order_handle,
                            Message(res.self.world.now,
                                OrderRequest(SYMBOL, action.order))),
                       TRUE)
    IN  IF actions = <<>> THEN res
        ELSE Only({RunActions(r, rest)
                   : r \in {Only({Do(action) : action \in {Head(actions)}})},
                     rest \in {Tail(actions)}})

\* A test that never finds the dispatch too soon
TooSoonNever(s, now) == FALSE

\* The test at the head of Stepper::one_iteration
TooSoon(s, now) == now - s.last_iteration_time < STEPPER_MIN_INTERVAL_MS

\* Stepper::one_iteration: every outcome
StepperIteration(s, c, now, quote) ==
    LET Run(w1) ==
            {Only({RunActions(res, st.actions)
                   : res \in {Result([s EXCEPT !.last_iteration_time = now,
                                !.mm_strategy = st,
                                !.world = [w1 EXCEPT !.trade_buf = <<>>,
                                                     !.wap_buf = <<>>,
                                                     !.filled_event_buf = <<>>]],
                              c, TRUE)}})
             : st \in StrategyRun(s.mm_strategy, w1, quote)}
    IN  IF now < s.last_iteration_time THEN {Result(s, c, FALSE)}
        ELSE IF TooSoon(s, now) THEN {Result(s, c, TRUE)}
        ELSE UNION {Run(w1)
                    : w1 \in {[s.world EXCEPT !.now = now,
                                !.order_tracker = remove_terminated_orders(@)]}}

\* sync, then one_iteration
StepperDispatch(s, c, now, quote) ==
    LET Iterate(r) ==
            IF ~r.ok THEN {r} ELSE StepperIteration(r.self, r.c, now, quote)
    IN  UNION {Iterate(r) : r \in {StepperSync(s, c)}}

-----------------------------------------------------------------------------
(* engine.rs and main.rs.  An engine instance is a record of the fields    *)
(* below; each step of main() / SimulationEngine::run maps an instance to  *)
(* the set of instances it may become.  tapes and rank are the input files *)
(* and the order of the hashes of Run(module), the same for the instance   *)
(* and its twin.                                                           *)

\* main.rs: the modules in the order they are added
Registrations == <<STEPPER, AGENT, REPUBLISHER>>

\* SimulationEngineBuilder::default and the builders main.rs creates
NewEngine(trades, tickers) ==
    [pc |-> "add_module", idx |-> 1, module_contexts |-> <<>>,
     comms |-> NewCommsSystem, clock |-> UNIX_EPOCH, q |-> EmptyBag,
     module_last_sync_time |-> <<>>,
     stepper |-> NewStepper, agent |-> NewMarketAgent,
     repub |-> NewRepublisher(None, trades, tickers),
     start_calls |-> <<>>, terminate_calls |-> <<>>, dispatches |-> <<>>]

\* Module::wake_on_message of the three modules
wake_on_message(m) == m # REPUBLISHER

\* Module::next_iteration_start_at of the three modules
next_iteration_start_at(e, m) ==
    IF m = REPUBLISHER THEN RepublisherNextIterationStartAt(e.repub) ELSE None

\* SimulationTime::set_time and time
set_time(e, time) == [e EXCEPT !.clock = time]
time(e) == e.clock

\* SimulationEngineBuilder::add_module_dyn for the idx-th registration
AddModuleStep(e) ==
    LET Added(m, r) ==
            [e EXCEPT
                !.comms = r.c,
                !.stepper = IF m = STEPPER THEN r.self ELSE @,
                !.agent = IF m = AGENT THEN r.self ELSE @,
                !.repub = IF m = REPUBLISHER THEN r.self ELSE @,
                !.module_contexts = Append(@, m),
                !.idx = IF e.idx = Len(Registrations) THEN 1 ELSE e.idx + 1,
                !.pc = IF e.idx = Len(Registrations) THEN "build" ELSE @]
        InitComm(m, c) ==
            CASE m = STEPPER -> StepperInitComm(e.stepper, c)
              [] m = AGENT -> MarketAgentInitComm(e.agent, c)
              [] m = REPUBLISHER -> RepublisherInitComm(e.repub, c)
        Add(m) ==
            {Added(m, r)
             : r \in {InitComm(m, c) : c \in {create_module(e.comms, m)}}}
    IN  UNION {Add(m) : m \in {Registrations[e.idx]}}

RECURSIVE TopicReaders(_, _)
TopicReaders(c, topics) ==
    IF topics = <<>> THEN c
    ELSE Only({TopicReaders(c1, rest)
               : c1 \in {get_topic_reader(c, Head(topics))},
                 rest \in {Tail(topics)}})

RECURSIVE BuildAll(_, _)
BuildAll(c, modules) ==
    IF modules = <<>> THEN c
    ELSE Only({BuildAll(c1, rest)
               : c1 \in {BuildModuleComms(c, Head(modules))},
                 rest \in {Tail(modules)}})

\* SimulationEngineBuilder::build, and the head of run()
BuildStep(e) ==
    {[e EXCEPT
        !.comms = Only({BuildAll(c, e.module_contexts)
                        : c \in {TopicReaders(e.comms, e.comms.topics)}}),
        !.module_last_sync_time =
            [m \in Range(e.module_contexts) |-> UNIX_EPOCH],
        !.pc = "start", !.idx = 1]}

\* run(): one turn of the loop that calls start()
StartModuleStep(e) ==
    LET m == e.module_contexts[e.idx] IN
    {[e EXCEPT
        !.agent = IF m = AGENT THEN MarketAgentStart(@) ELSE @,
        !.repub = IF m = REPUBLISHER THEN RepublisherStart(@) ELSE @,
        !.start_calls = Append(@, m),
        !.idx = IF e.idx = Len(e.module_contexts) THEN 1 ELSE e.idx + 1,
        !.pc = IF e.idx = Len(e.module_contexts) THEN "seed" ELSE @]}

\* run(): the loop that pushes the modules' first iterations
RECURSIVE SeedQueue(_, _, _)
SeedQueue(e, queue, modules) ==
    IF modules = <<>> THEN queue
    ELSE LET Pushed(m, t) ==
                IF t = None THEN queue
                ELSE queue (+) SetToBag({<<t.time, m>>})
         IN  Only({SeedQueue(e, pushed, rest)
                   : pushed \in {Only({Pushed(m, next_iteration_start_at(e, m))
                                       : m \in {Head(modules)}})},
                     rest \in {Tail(modules)}})

SeedStep(e) ==
    {[e EXCEPT !.q = SeedQueue(e, EmptyBag, e.module_contexts),
               !.pc = "loop"]}

\* impl Ord for TimedEvent: a is popped no later than b
EventBefore(a, b, rank) ==
    IF a[1] = b[1] THEN rank[a[2]] <= rank[b[2]] ELSE a[1] < b[1]

\* BinaryHeap<Reverse<TimedEvent>>::pop: the least event
PopMin(queue, rank) ==
    CHOOSE a \in BagToSet(queue) :
        \A b \in BagToSet(queue) : EventBefore(a, b, rank)

\* A wake-up test that takes a topic stamped at the last sync for unread
HasUpdateAtLastSync(e, m) ==
    \E i \in 1..Len(e.comms.read_topics[m]) :
        e.comms.topic_updated_at[e.comms.read_topics[m][i]]
            >= e.module_last_sync_time[m]

\* The test of run()'s wake-up loop for one module
HasUpdateSinceLastSync(e, m) ==
    \E i \in 1..Len(e.comms.read_topics[m]) :
        e.comms.topic_updated_at[e.comms.read_topics[m][i]]
            > e.module_last_sync_time[m]

\* run(): the loop that wakes the modules with unread updates
RECURSIVE WakeModules(_, _)
WakeModules(e, modules) ==
    IF modules = <<>> THEN e
    ELSE
        LET Woken(m) ==
                IF HasUpdateSinceLastSync(e, m) /\ wake_on_message(m)
                THEN [e EXCEPT !.q = @ (+) SetToBag({<<time(e), m>>}),
                               !.module_last_sync_time[m] = time(e)]
                ELSE e
        IN  Only({WakeModules(e1, rest)
                  : e1 \in {Only({Woken(m) : m \in {Head(modules)}})},
                    rest \in {Tail(modules)}})

\* sync and one_iteration of module m: every [self, c, ok]
ModuleDispatch(e, m, quote) ==
    CASE m = STEPPER -> StepperDispatch(e.stepper, e.comms, time(e), quote)
      [] m = AGENT -> MarketAgentDispatch(e.agent, e.comms, time(e))
      [] m = REPUBLISHER ->
            {RepublisherIteration(res, time(e))
             : res \in {Result(e.repub, e.comms, TRUE)}}

\* A run() that does not look at the flag
WorldRunningIgnored(e) == TRUE

\* The flag run() tests after each pop
WorldRunning(e) == e.comms.is_world_running

\* run(): one turn of the main loop that dispatches a module
DispatchStep(e, rank, quote) ==
    LET Push(e2, m, t) ==
            IF t = None THEN e2
            ELSE [e2 EXCEPT !.q = @ (+) SetToBag({<<t.time, m>>})]
        Wake(e3) == WakeModules(e3, e3.module_contexts)
        After(e2, m, ok) ==
            IF ok
            THEN Only({Wake(e3)
                       : e3 \in {Push(e2, m, next_iteration_start_at(e2, m))}})
            ELSE [e2 EXCEPT !.pc = "panicked"]
        Ran(e1, m, r) ==
            Only({After(e2, m, r.ok)
                  : e2 \in {[e1 EXCEPT
                        !.comms = r.c,
                        !.stepper = IF m = STEPPER THEN r.self ELSE @,
                        !.agent = IF m = AGENT THEN r.self ELSE @,
                        !.repub = IF m = REPUBLISHER THEN r.self ELSE @]}})
        Run(e1, m) == {Ran(e1, m, r) : r \in ModuleDispatch(e1, m, quote)}
        Pop(ev) ==
            UNION {Run(e1, ev[2])
                   : e1 \in {set_time([e EXCEPT !.q = @ (-) SetToBag({ev}),
                                            !.dispatches = Append(@, ev)],
                                      ev[1])}}
    IN  UNION {Pop(ev) : ev \in {PopMin(e.q, rank)}}

\* run(): the main loop ends, the heap empty or the flag cleared
ExitLoopStep(e, rank) ==
    {[e EXCEPT !.q = IF e.q = EmptyBag THEN @
                     ELSE @ (-) SetToBag({PopMin(e.q, rank)}),
               !.pc = "terminate", !.idx = 1]}

\* run(): one turn of the loop that calls terminate()
TerminateModuleStep(e) ==
    {[e EXCEPT
        !.terminate_calls = Append(@, e.module_contexts[e.idx]),
        !.idx = IF e.idx = Len(e.module_contexts) THEN 1 ELSE e.idx + 1,
        !.pc = IF e.idx = Len(e.module_contexts) THEN "done" ELSE @]}

\* The steps an instance can take from where it stands; it stays as it is
\* once run() has returned or panicked
Steps(e, rank, quote) ==
    CASE e.pc = "add_module" -> AddModuleStep(e)
      [] e.pc = "build" -> BuildStep(e)
      [] e.pc = "start" -> StartModuleStep(e)
      [] e.pc = "seed" -> SeedStep(e)
      [] e.pc = "loop" ->
            IF e.q # EmptyBag /\ WorldRunning(e)
            THEN DispatchStep(e, rank, quote)
            ELSE ExitLoopStep(e, rank)
      [] e.pc = "terminate" -> TerminateModuleStep(e)
      [] OTHER -> {e}

-----------------------------------------------------------------------------
(* The inputs: the tapes and the hash order *)

\* n timestamps as a file lists them; sorted files list them in order
Times(n, sorted) ==
    {ts \in [1..n -> TapeTimes] :
        sorted => \A i \in 1..(n - 1) : ts[i] <= ts[i + 1]}

TradeTapes(sorted) ==
    UNION {{[i \in 1..n |->
                [id |-> i, time |-> ts[i], price |-> sh[i].price,
                 qty |-> sh[i].qty, is_buyer_maker |-> sh[i].is_buyer_maker]]
            : ts \in Times(n, sorted), sh \in [1..n -> TradeShapes]}
           : n \in 0..MaxTrades}

TickerTapes(sorted) ==
    UNION {{[i \in 1..n |->
                [update_id |-> i, event_time |-> ts[i],
                 best_bid_price |-> sh[i].best_bid_price,
                 best_ask_price |-> sh[i].best_ask_price]]
            : ts \in Times(n, sorted), sh \in [1..n -> TickerShapes]}
           : n \in 0..MaxTickers}

\* The orders DefaultHasher may put the three Run(module) events in
HashRanks ==
    {[m \in Range(Registrations) |->
        CHOOSE i \in 1..Len(p) : p[i] = m] : p \in Perms(Range(Registrations))}

-----------------------------------------------------------------------------
(* The state machine *)

Engine ==
    [pc |-> pc, idx |-> idx, module_contexts |-> module_contexts,
     comms |-> comms, clock |-> clock, q |-> q,
     module_last_sync_time |-> module_last_sync_time,
     stepper |-> stepper, agent |-> agent, repub |-> repub,
     start_calls |-> start_calls, terminate_calls |-> terminate_calls,
     dispatches |-> dispatches]

Install(e) ==
    /\ pc' = e.pc
    /\ idx' = e.idx
    /\ module_contexts' = e.module_contexts
    /\ comms' = e.comms
    /\ clock' = e.clock
    /\ q' = e.q
    /\ module_last_sync_time' = e.module_last_sync_time
    /\ stepper' = e.stepper
    /\ agent' = e.agent
    /\ repub' = e.repub
    /\ start_calls' = e.start_calls
    /\ terminate_calls' = e.terminate_calls
    /\ dispatches' = e.dispatches

\* The second instance, when there is one, takes a step of its own
TwinFollows(quote) ==
    IF twin = None THEN twin' = twin
    ELSE twin' \in Steps(twin, hashRank, quote)

InitWith(sorted, pair) ==
    /\ trade_tape \in TradeTapes(sorted)
    /\ bookticker_tape \in TickerTapes(sorted)
    /\ hashRank \in HashRanks
    /\ pc = "add_module"
    /\ idx = 1
    /\ module_contexts = <<>>
    /\ comms = NewCommsSystem
    /\ clock = UNIX_EPOCH
    /\ q = EmptyBag
    /\ module_last_sync_time = <<>>
    /\ stepper = NewStepper
    /\ agent = NewMarketAgent
    /\ repub = NewRepublisher(None, trade_tape, bookticker_tape)
    /\ start_calls = <<>>
    /\ terminate_calls = <<>>
    /\ dispatches = <<>>
    /\ twin = IF pair THEN NewEngine(trade_tape, bookticker_tape) ELSE None

Init == InitWith(TRUE, FALSE)

Inputs == <<trade_tape, bookticker_tape, hashRank>>

AddModule ==
    /\ pc = "add_module"
    /\ \E e \in AddModuleStep(Engine) : Install(e)
    /\ TwinFollows(<<1, 1>>)
    /\ UNCHANGED Inputs

Build ==
    /\ pc = "build"
    /\ \E e \in BuildStep(Engine) : Install(e)
    /\ TwinFollows(<<1, 1>>)
    /\ UNCHANGED Inputs

StartModule ==
    /\ pc = "start"
    /\ \E e \in StartModuleStep(Engine) : Install(e)
    /\ TwinFollows(<<1, 1>>)
    /\ UNCHANGED Inputs

Seed ==
    /\ pc = "seed"
    /\ \E e \in SeedStep(Engine) : Install(e)
    /\ TwinFollows(<<1, 1>>)
    /\ UNCHANGED Inputs

Dispatch ==
    /\ pc = "loop"
    /\ q # EmptyBag
    /\ WorldRunning(Engine)
    /\ \E quote \in QuoteChoices :
        /\ \E e \in DispatchStep(Engine, hashRank, quote) : Install(e)
        /\ TwinFollows(quote)
    /\ UNCHANGED Inputs

ExitLoop ==
    /\ pc = "loop"
    /\ q = EmptyBag \/ ~WorldRunning(Engine)
    /\ \E e \in ExitLoopStep(Engine, hashRank) : Install(e)
    /\ TwinFollows(<<1, 1>>)
    /\ UNCHANGED Inputs

TerminateModule ==
    /\ pc = "terminate"
    /\ \E e \in TerminateModuleStep(Engine) : Install(e)
    /\ TwinFollows(<<1, 1>>)
    /\ UNCHANGED Inputs

Next ==
    \/ AddModule
    \/ Build
    \/ StartModule
    \/ Seed
    \/ Dispatch
    \/ ExitLoop
    \/ TerminateModule

Spec == Init /\ [][Next]_vars

\* Tapes in any order of timestamps
InitAnyTapes == InitWith(FALSE, FALSE)
SpecAnyTapes == InitAnyTapes /\ [][Next]_vars

\* run() is one thread that goes on until it returns
FairSpec == Spec /\ WF_vars(Next)

\* Two independent instances on the same tapes, stepping together
InitPair == InitWith(TRUE, TRUE)
SpecPair == InitPair /\ [][Next]_vars

\* Tapes sorted by timestamp whose rows come less than, exactly and more
\* than 100 ms apart: trades of one unit at one price, and up to one book
\* ticker more than on the other tapes
PacedTimes == {T0, T0 + 99, T0 + 199, T0 + 300}

PacedTradeTapes ==
    UNION {{[i \in 1..n |->
                [id |-> i, time |-> ts[i], price |-> 2, qty |-> 1,
                 is_buyer_maker |-> TRUE]]
            : ts \in {t \in [1..n -> PacedTimes] :
                        \A i \in 1..(n - 1) : t[i] <= t[i + 1]}}
           : n \in 0..MaxTrades}

PacedTickerTapes ==
    UNION {{[i \in 1..n |->
                [update_id |-> i, event_time |-> ts[i],
                 best_bid_price |-> sh[i].best_bid_price,
                 best_ask_price |-> sh[i].best_ask_price]]
            : ts \in {t \in [1..n -> PacedTimes] :
                        \A i \in 1..(n - 1) : t[i] <= t[i + 1]},
              sh \in [1..n -> TickerShapes]}
           : n \in 0..(MaxTickers + 1)}

InitPaced ==
    /\ trade_tape \in PacedTradeTapes
    /\ bookticker_tape \in PacedTickerTapes
    /\ hashRank \in HashRanks
    /\ pc = "add_module"
    /\ idx = 1
    /\ module_contexts = <<>>
    /\ comms = NewCommsSystem
    /\ clock = UNIX_EPOCH
    /\ q = EmptyBag
    /\ module_last_sync_time = <<>>
    /\ stepper = NewStepper
    /\ agent = NewMarketAgent
    /\ repub = NewRepublisher(None, trade_tape, bookticker_tape)
    /\ start_calls = <<>>
    /\ terminate_calls = <<>>
    /\ dispatches = <<>>
    /\ twin = None

SpecPaced == InitPaced /\ [][Next]_vars

-----------------------------------------------------------------------------
(* The matcher on its own.  The engine is built and started as above, on   *)
(* empty tapes and with balances small enough to run out; then messages of *)
(* any content are published on the order and market_data topics, as the   *)
(* stepper and the republisher publish them, and every time the engine     *)
(* sets the clock and runs the matcher's sync and one_iteration.           *)

\* Dispatches of the matcher in one run
MaxMatcherSteps == 4

\* MarketAgentBuilder::with_initial_balance, with amounts that can run out
MatcherBalances == (QUOTE_ASSET :> 6) @@ (BASE_ASSET :> 4)

\* A symbol the symbol manager was not given
UNKNOWN_SYMBOL == "ETHUSDT"

OrderIds == {"a", "b"}

\* order::OrderRequest as a client may publish it
OrderShapes ==
    {[side |-> sd, price |-> p, quantity |-> 2]
        : sd \in {"Buy", "Sell"}, p \in {1, 2}}
    \cup {[side |-> "Buy", price |-> 1, quantity |-> 0],
          [side |-> "Buy", price |-> 0, quantity |-> 2]}

OrderRequests ==
    {OrderRequest(SYMBOL, [side |-> sh.side, price |-> sh.price,
                           quantity |-> sh.quantity, order_id |-> id])
        : sh \in OrderShapes, id \in OrderIds}
    \cup {OrderRequest(UNKNOWN_SYMBOL, [side |-> "Buy", price |-> 1,
                                        quantity |-> 2, order_id |-> "a"])}

\* order::CancelOrderRequest as a client may publish it
CancelRequests == {CancelOrderRequest(SYMBOL, id) : id \in OrderIds}

\* Rows of the trades file: (price, qty, is_buyer_maker)
MatcherTrades ==
    {[price |-> p, qty |-> n, is_buyer_maker |-> bm]
        : p \in {1, 2}, n \in {1, 3}, bm \in BOOLEAN}
    \cup {[price |-> 1, qty |-> 0, is_buyer_maker |-> TRUE]}

\* run() up to its main loop: n steps of the engine
RECURSIVE RunSteps(_, _, _)
RunSteps(e, rank, n) ==
    IF n = 0 THEN e
    ELSE Only({RunSteps(e1, rank, n - 1)
               : e1 \in {Only(Steps(e, rank, <<1, 1>>))}})

\* The engine in its main loop, no event in the heap
MatcherEngine ==
    RunSteps([NewEngine(<<>>, <<>>) EXCEPT
                    !.agent.initial_balance = MatcherBalances],
             Only({rank \in HashRanks : rank[STEPPER] = 1 /\ rank[AGENT] = 2}),
             2 * Len(Registrations) + 2)

MatcherInit ==
    /\ trade_tape = <<>>
    /\ bookticker_tape = <<>>
    /\ hashRank = Only({rank \in HashRanks
                            : rank[STEPPER] = 1 /\ rank[AGENT] = 2})
    /\ pc = MatcherEngine.pc
    /\ idx = MatcherEngine.idx
    /\ module_contexts = MatcherEngine.module_contexts
    /\ comms = MatcherEngine.comms
    /\ clock = MatcherEngine.clock
    /\ q = MatcherEngine.q
    /\ module_last_sync_time = MatcherEngine.module_last_sync_time
    /\ stepper = MatcherEngine.stepper
    /\ agent = MatcherEngine.agent
    /\ repub = MatcherEngine.repub
    /\ start_calls = MatcherEngine.start_calls
    /\ terminate_calls = MatcherEngine.terminate_calls
    /\ dispatches = MatcherEngine.dispatches
    /\ twin = None

\* Module m publishes msg at the next instant and the engine dispatches the
\* matcher at that instant: set_time, sync, one_iteration
MatcherStep(m, handle, payload) ==
    /\ pc = "loop"
    /\ Len(dispatches) < MaxMatcherSteps
    /\ \E r \in UNION {MarketAgentDispatch(agent, c, clock + 1)
                       : c \in {Publish(comms, m, handle,
                                        Message(clock + 1, payload))}} :
        /\ agent' = r.self
        /\ comms' = r.c
        /\ pc' = IF r.ok THEN pc ELSE "panicked"
        /\ module_last_sync_time' =
                [module_last_sync_time EXCEPT ![AGENT] = clock + 1]
    /\ clock' = clock + 1
    /\ dispatches' = Append(dispatches, <<clock + 1, AGENT>>)
    /\ UNCHANGED <<idx, trade_tape, bookticker_tape, hashRank,
                   module_contexts, q, stepper, repub, start_calls,
                   terminate_calls, twin>>

\* A client publishes an order request
SubmitOrder ==
    \E req \in OrderRequests :
        MatcherStep(STEPPER, stepper.write_order_handle, req)

\* A client publishes a cancel request
SubmitCancel ==
    \E req \in CancelRequests :
        MatcherStep(STEPPER, stepper.write_order_handle, req)

\* The replay source publishes a trade of the tape
TapeTrade ==
    \E row \in MatcherTrades :
        MatcherStep(REPUBLISHER, repub.write_market_data_handle,
                    TradeTick([id |-> Len(dispatches) + 1, price |-> row.price,
                               qty |-> row.qty, time |-> clock + 1,
                               is_buyer_maker |-> row.is_buyer_maker]))

MatcherNext ==
    \/ SubmitOrder
    \/ SubmitCancel
    \/ TapeTrade

MatcherSpec == MatcherInit /\ [][MatcherNext]_vars

\* OrderRequest.quantity is an f64 no code tests the sign of: requests that
\* carry a negative quantity
SignedOrderRequests ==
    {OrderRequest(SYMBOL, [side |-> sd, price |-> 1, quantity |-> -2,
                           order_id |-> id])
        : sd \in {"Buy", "Sell"}, id \in OrderIds}

\* A client publishes an order request of a negative quantity
SubmitSignedOrder ==
    \E req \in SignedOrderRequests :
        MatcherStep(STEPPER, stepper.write_order_handle, req)

MatcherSignedNext ==
    \/ SubmitOrder
    \/ SubmitSignedOrder
    \/ SubmitCancel
    \/ TapeTrade

\* The matcher driven by orders of any quantity
MatcherSignedSpec == MatcherInit /\ [][MatcherSignedNext]_vars

\* with_symbol_config's fee rate: none of the gross, or all of it
FeeRates == {0, 1}

\* The matcher on its own, the symbol configured with any of the fee rates
MatcherFeeInit ==
    /\ trade_tape = <<>>
    /\ bookticker_tape = <<>>
    /\ hashRank = Only({rank \in HashRanks
                            : rank[STEPPER] = 1 /\ rank[AGENT] = 2})
    /\ pc = MatcherEngine.pc
    /\ idx = MatcherEngine.idx
    /\ module_contexts = MatcherEngine.module_contexts
    /\ comms = MatcherEngine.comms
    /\ clock = MatcherEngine.clock
    /\ q = MatcherEngine.q
    /\ module_last_sync_time = MatcherEngine.module_last_sync_time
    /\ stepper = MatcherEngine.stepper
    /\ agent \in {[MatcherEngine.agent EXCEPT
                        !.symobl_info_manager[SYMBOL].fee_rate = f]
                  : f \in FeeRates}
    /\ repub = MatcherEngine.repub
    /\ start_calls = MatcherEngine.start_calls
    /\ terminate_calls = MatcherEngine.terminate_calls
    /\ dispatches = MatcherEngine.dispatches
    /\ twin = None

MatcherFeeSpec == MatcherFeeInit /\ [][MatcherNext]_vars

-----------------------------------------------------------------------------
(* simple_market.rs on its own: a SimpleMarket::new() that is called as the *)
(* tests of simple_market.rs call it, add_order, cancel_order,              *)
(* add_market_trade and try_match_market in any sequence.  The market is    *)
(* the one the matcher holds for SYMBOL; nothing else moves.                *)

\* The trades the buffer holds at most before try_match_market drains it
MaxBuffered == 2

MarketOrderIds == {"a", "b", "c"}

\* The LimitOrders add_order is called with
MarketOrders ==
    {[submit_at |-> t, side |-> s, order_id |-> id, price |-> p,
      quantity |-> n, filled |-> 0]
        : t \in {UNIX_EPOCH + 1, UNIX_EPOCH + 2}, s \in {"Buy", "Sell"},
          id \in MarketOrderIds, p \in {1, 2}, n \in {0 - 1, 0, 2}}

\* The MarketTrades add_market_trade is called with: an active sell at the
\* lowest price and an active buy at the highest, of one unit
MarketTrades ==
    {[price |-> 1, quantity |-> 1, trade_at |-> UNIX_EPOCH,
      is_buyer_maker |-> TRUE],
     [price |-> 2, quantity |-> 1, trade_at |-> UNIX_EPOCH,
      is_buyer_maker |-> FALSE]}

\* SimpleMarket::new(), held as the matcher's market for SYMBOL
MarketInit ==
    /\ trade_tape = <<>>
    /\ bookticker_tape = <<>>
    /\ hashRank = Only({rank \in HashRanks
                            : rank[STEPPER] = 1 /\ rank[AGENT] = 2})
    /\ pc = MatcherEngine.pc
    /\ idx = MatcherEngine.idx
    /\ module_contexts = MatcherEngine.module_contexts
    /\ comms = MatcherEngine.comms
    /\ clock = MatcherEngine.clock
    /\ q = MatcherEngine.q
    /\ module_last_sync_time = MatcherEngine.module_last_sync_time
    /\ stepper = MatcherEngine.stepper
    /\ agent = [MatcherEngine.agent EXCEPT
                    !.market_by_symbol = (SYMBOL :> NewSimpleMarket)]
    /\ repub = MatcherEngine.repub
    /\ start_calls = MatcherEngine.start_calls
    /\ terminate_calls = MatcherEngine.terminate_calls
    /\ dispatches = MatcherEngine.dispatches
    /\ twin = None

\* The market under test
TheMarket == agent.market_by_symbol[SYMBOL]

\* A call that leaves the market as after
MarketCall(after) ==
    /\ agent' = [agent EXCEPT !.market_by_symbol[SYMBOL] = after]
    /\ UNCHANGED <<pc, idx, trade_tape, bookticker_tape, hashRank,
                   module_contexts, comms, clock, q, module_last_sync_time,
                   stepper, repub, start_calls, terminate_calls, dispatches,
                   twin>>

CallAddOrder == \E order \in MarketOrders :
    MarketCall(add_order(TheMarket, order))

CallCancelOrder == \E order_id \in MarketOrderIds :
    MarketCall(cancel_order(TheMarket, order_id))

CallAddMarketTrade == \E trade \in MarketTrades :
    /\ Len(TheMarket.market_trade_buf) < MaxBuffered
    /\ MarketCall(add_market_trade(TheMarket, trade))

CallTryMatchMarket == MarketCall(try_match_market(TheMarket).market)

MarketNext ==
    \/ CallAddOrder
    \/ CallCancelOrder
    \/ CallAddMarketTrade
    \/ CallTryMatchMarket

MarketSpec == MarketInit /\ [][MarketNext]_vars

-----------------------------------------------------------------------------
(* order_tracker.rs on its own: an OrderTracker::default() that is called   *)
(* as the tests of order_tracker.rs call it, in any sequence.  The tracker  *)
(* is the one of the strategy module's world; nothing else moves.           *)

\* The filled amount up to which fill_order is called
MaxTrackerFilled == 2

TrackedIds == {"x", "y"}
ReportIds == {"report1", "report2"}

\* unique_fill_report_id: None, or Some(id)
Reports == {None} \cup {[type |-> "Some", id |-> r] : r \in ReportIds}

\* The Orders upsert_order is called with
TrackerOrders ==
    {[order_id |-> id, price |-> 1, side |-> s, quantity |-> n, filled |-> 0,
      status |-> "Open", created_at |-> UNIX_EPOCH]
        : id \in TrackedIds, s \in {"Buy", "Sell"}, n \in {1, 2}}

TrackerInit ==
    /\ trade_tape = <<>>
    /\ bookticker_tape = <<>>
    /\ hashRank = Only({rank \in HashRanks
                            : rank[STEPPER] = 1 /\ rank[AGENT] = 2})
    /\ pc = MatcherEngine.pc
    /\ idx = MatcherEngine.idx
    /\ module_contexts = MatcherEngine.module_contexts
    /\ comms = MatcherEngine.comms
    /\ clock = MatcherEngine.clock
    /\ q = MatcherEngine.q
    /\ module_last_sync_time = MatcherEngine.module_last_sync_time
    /\ stepper = [MatcherEngine.stepper EXCEPT
                    !.world.order_tracker = NewOrderTracker]
    /\ agent = MatcherEngine.agent
    /\ repub = MatcherEngine.repub
    /\ start_calls = MatcherEngine.start_calls
    /\ terminate_calls = MatcherEngine.terminate_calls
    /\ dispatches = MatcherEngine.dispatches
    /\ twin = None

\* The tracker that is called
TheTracker == stepper.world.order_tracker

\* A call that leaves the tracker as after
TrackerCall(after) ==
    /\ stepper' = [stepper EXCEPT !.world.order_tracker = after]
    /\ UNCHANGED <<pc, idx, trade_tape, bookticker_tape, hashRank,
                   module_contexts, comms, clock, q, module_last_sync_time,
                   agent, repub, start_calls, terminate_calls, dispatches,
                   twin>>

CallUpsertOrder == \E order \in TrackerOrders :
    TrackerCall(upsert_order(TheTracker, order))

CallFillOrder == \E order_id \in TrackedIds, report \in Reports :
    /\ order_id \in DOMAIN TheTracker.orders
            => TheTracker.orders[order_id].filled < MaxTrackerFilled
    /\ TrackerCall(fill_order(TheTracker, order_id, 1, report))

CallUpdateFillQuantity == \E order_id \in TrackedIds, filled \in {0, 1} :
    TrackerCall(update_fill_quantity(TheTracker, order_id, filled))

CallUpdateStatus == \E order_id \in TrackedIds, status \in {"Filled", "Canceled"} :
    TrackerCall(update_status(TheTracker, order_id, status))

CallRemoveTerminatedOrders ==
    TrackerCall(remove_terminated_orders(TheTracker))

CallTrackerCancelOrder == \E order_id \in TrackedIds :
    TrackerCall(tracker_cancel_order(TheTracker, order_id))

CallRequestCancelOrder == \E order_id \in TrackedIds :
    TrackerCall(request_cancel_order(TheTracker, order_id))

TrackerNext ==
    \/ CallUpsertOrder
    \/ CallFillOrder
    \/ CallUpdateFillQuantity
    \/ CallUpdateStatus
    \/ CallRemoveTerminatedOrders
    \/ CallTrackerCancelOrder
    \/ CallRequestCancelOrder

TrackerSpec == TrackerInit /\ [][TrackerNext]_vars

-----------------------------------------------------------------------------
(* Properties *)

\* Module m has a message in one of its mailboxes that it has not received
Unread(m) ==
    \E i \in 1..Len(comms.read_topics[m]) :
        comms.mailbox[<<m, comms.read_topics[m][i]>>] # <<>>

\* C1: a message published at virtual time now on a topic is received by
\* every subscriber that wakes on messages before the clock is set to a
\* later time: when the clock advances, no such subscriber has a message
\* left unread in a mailbox.
C1_ReceivedBeforeClockAdvances ==
    [][clock' > clock =>
        \A m \in Range(module_contexts) : wake_on_message(m) => ~Unread(m)]_vars

\* C2: once request_terminate() has cleared the flag, the dispatch that
\* cleared it is the last one (no module is synced or iterated again), the
\* main loop is left, and terminate() is called exactly once on every
\* module in registration order; the same calls follow when the heap
\* drains with the flag still set.
C2_TerminateAfterFlagOrDrain ==
    /\ [][~comms.is_world_running =>
            /\ dispatches' = dispatches
            /\ stepper' = stepper /\ agent' = agent /\ repub' = repub]_vars
    /\ [](/\ \E n \in 0..Len(Registrations) :
                terminate_calls = SubSeq(Registrations, 1, n)
          /\ terminate_calls # <<>> => pc \in {"terminate", "done"})
    /\ (pc = "loop" /\ (~comms.is_world_running \/ q = EmptyBag))
            ~> (pc = "done" /\ terminate_calls = Registrations)

\* C2 witness: run() has returned after a dispatch cleared the flag, with
\* modules that the wake-up loop of that dispatch queued never dispatched
C2_Witness ==
    /\ pc = "done"
    /\ ~comms.is_world_running
    /\ terminate_calls = Registrations
    /\ q # EmptyBag

\* What has been published on a topic so far
Published(topic) ==
    IF topic \in DOMAIN comms.published THEN comms.published[topic] ELSE <<>>

\* The timestamp a tape event carries
TickTime(tick) ==
    IF tick.type = "BinanceTradeTick" THEN tick.time ELSE tick.event_time

IsTrade(msg) == msg.payload.type = "BinanceTradeTick"
IsTicker(msg) == msg.payload.type = "BinanceBookTicker"

\* The payloads of a sequence of messages
Payloads(msgs) == [i \in 1..Len(msgs) |-> msgs[i].payload]

\* C3: the values run() passes to set_time never decrease: the clock never
\* moves backward in a step, and the times of the dispatches so far are in
\* non-decreasing order, whatever the order of the rows of the tapes.
C3_ClockMonotone ==
    /\ [][clock' >= clock]_vars
    /\ [](\A i \in 1..(Len(dispatches) - 1) :
            dispatches[i][1] <= dispatches[i + 1][1])

\* C3 witness: on a trades file whose rows are out of order, the republisher
\* ran, a module woken by its message ran at the same instant, and a later
\* dispatch advanced the clock
C3_Witness ==
    /\ \E i \in 1..(Len(trade_tape) - 1) :
            trade_tape[i].time > trade_tape[i + 1].time
    /\ \E i, j, k \in 1..Len(dispatches) :
        /\ i < j /\ j < k
        /\ dispatches[i][2] = REPUBLISHER
        /\ dispatches[j][2] # REPUBLISHER
        /\ dispatches[j][1] = dispatches[i][1]
        /\ dispatches[k][1] > dispatches[j][1]
    /\ clock = dispatches[Len(dispatches)][1]

\* C4: every receiver of a topic (a subscriber's, or the engine's reader)
\* has been given exactly the messages published on its topic, each once
\* and in publish order: what it has handed out followed by what waits in
\* its mailbox is the topic's publish log.  receive() on an empty mailbox
\* gives None and changes nothing; otherwise it gives the next message of
\* the log.
C4_FanOutInOrder ==
    /\ \A ch \in DOMAIN comms.mailbox :
            comms.received[ch] \o comms.mailbox[ch] = Published(ch[2])
    /\ \A m \in DOMAIN comms.read_topics :
         \A s \in 1..Len(comms.read_topics[m]) :
            IF comms.mailbox[<<m, comms.read_topics[m][s]>>] = <<>>
            THEN /\ ReceiveMsg(comms, m, [slot |-> s - 1]) = None
                 /\ ReceiveComms(comms, m, [slot |-> s - 1]) = comms
            ELSE ReceiveMsg(comms, m, [slot |-> s - 1]) =
                    Published(comms.read_topics[m][s])
                        [Len(comms.received[<<m, comms.read_topics[m][s]>>]) + 1]

\* C4 witness: a receiver has handed out two messages whose commit_at
\* decrease, while another receiver of the same topic still holds messages
C4_Witness ==
    \E ch, other \in DOMAIN comms.mailbox :
        /\ Len(comms.received[ch]) >= 2
        /\ comms.received[ch][1].commit_at > comms.received[ch][2].commit_at
        /\ comms.mailbox[ch] = <<>>
        /\ other # ch /\ other[2] = ch[2]
        /\ comms.mailbox[other] # <<>>

\* C5: with both tapes sorted by timestamp, what has been published on
\* market_data is in non-decreasing order of timestamp, its trades are the
\* first rows of the trades file and its book tickers the first rows of the
\* bookTicker file, each once; when run() has returned every row of both
\* files has been published.
C5_EveryTapeEventOnceInOrder ==
    /\ \A i \in 1..(Len(Published("market_data")) - 1) :
            TickTime(Published("market_data")[i].payload)
                <= TickTime(Published("market_data")[i + 1].payload)
    /\ Payloads(SelectSeq(Published("market_data"), IsTrade)) =
            [i \in 1..Len(SelectSeq(Published("market_data"), IsTrade)) |->
                TradeTick(trade_tape[i])]
    /\ Payloads(SelectSeq(Published("market_data"), IsTicker)) =
            [i \in 1..Len(SelectSeq(Published("market_data"), IsTicker)) |->
                BookTicker(bookticker_tape[i])]
    /\ Len(SelectSeq(Published("market_data"), IsTrade)) <= Len(trade_tape)
    /\ Len(SelectSeq(Published("market_data"), IsTicker))
            <= Len(bookticker_tape)
    /\ pc = "done" =>
            Len(Published("market_data"))
                = Len(trade_tape) + Len(bookticker_tape)

\* C5 witness: run() has returned after a trade, a later book ticker and a
\* still later trade were published in that order
C5_Witness ==
    /\ pc = "done"
    /\ Len(Published("market_data")) >= 3
    /\ IsTrade(Published("market_data")[1])
    /\ IsTicker(Published("market_data")[2])
    /\ IsTrade(Published("market_data")[3])
    /\ Published("market_data")[1].payload.time
            < Published("market_data")[2].payload.event_time
    /\ Published("market_data")[2].payload.event_time
            < Published("market_data")[3].payload.time

C7_PublishedAtTapeTime ==
    /\ \A i \in 1..Len(Published("market_data")) :
        /\ Published("market_data")[i].commit_at
                = UNIX_EPOCH + TickTime(Published("market_data")[i].payload)
        /\ Published("market_data")[i].commit_at <= clock
    /\ pc \in {"seed", "loop", "terminate", "done"} =>
        IF repub.peeking_tick = None
        THEN /\ repub.trade_rx = <<>> /\ repub.bookticker_rx = <<>>
             /\ RepublisherNextIterationStartAt(repub) = None
        ELSE RepublisherNextIterationStartAt(repub) =
                [type |-> "Some",
                 time |-> UNIX_EPOCH + TickTime(repub.peeking_tick)]
    /\ pc = "loop" /\ repub.peeking_tick # None =>
        /\ UNIX_EPOCH + TickTime(repub.peeking_tick) > clock
        /\ <<UNIX_EPOCH + TickTime(repub.peeking_tick), REPUBLISHER>>
                \in BagToSet(q)

\* C7 witness: a dispatch of the republisher has published a row and left
\* a later row peeked
C7_Witness ==
    /\ pc = "loop"
    /\ dispatches # <<>>
    /\ dispatches[Len(dispatches)][2] = REPUBLISHER
    /\ Published("market_data") # <<>>
    /\ repub.peeking_tick # None
    /\ TickTime(repub.peeking_tick) > clock

\* C8: when a dispatch leaves the republisher with nothing to peek, the
\* flag is cleared; once the flag is cleared the last dispatch is that of
\* the republisher, so no module is dispatched after it; and on every pair
\* of tapes, the empty ones included, run() returns.
C8_TerminatesOnFiniteTapes ==
    /\ [](dispatches # <<>> /\ repub.peeking_tick = None
            => ~comms.is_world_running)
    /\ [](~comms.is_world_running =>
            /\ dispatches # <<>>
            /\ dispatches[Len(dispatches)][2] = REPUBLISHER
            /\ repub.peeking_tick = None
            /\ repub.trade_rx = <<>> /\ repub.bookticker_rx = <<>>)
    /\ [](trade_tape = <<>> /\ bookticker_tape = <<>> => q = EmptyBag)
    /\ <>(pc = "done")

\* C8 witness: run() has returned after the republisher published the last
\* of at least three rows and cleared the flag
C8_Witness ==
    /\ pc = "done"
    /\ ~comms.is_world_running
    /\ Len(trade_tape) >= 2 /\ Len(bookticker_tape) >= 1
    /\ Len(Published("market_data")) = Len(trade_tape) + Len(bookticker_tape)

\* The registrations and the publishers built from them
Topology ==
    <<comms.topics, comms.destination, comms.read_topics, comms.write_topics,
      comms.topic_publisher>>

\* The timestamps of the rows of the two tapes
TapeTimestamps ==
    {trade_tape[i].time : i \in 1..Len(trade_tape)}
        \cup {bookticker_tape[i].event_time : i \in 1..Len(bookticker_tape)}

\* C9: start() is called on the modules in registration order, each once;
\* the first call comes after every module is registered and the comms are
\* built, and the topology does not change from then on; nothing is
\* dispatched before all modules are started; and when the tapes have a
\* row, there is a first dispatch and it is at the earliest timestamp of
\* the tapes.
C9_StartOnceBeforeFirstDispatch ==
    /\ [](\E n \in 0..Len(Registrations) :
            start_calls = SubSeq(Registrations, 1, n))
    /\ [](start_calls # <<>> => pc \notin {"add_module", "build"})
    /\ [][start_calls # <<>> => Topology' = Topology]_vars
    /\ [](pc \in {"seed", "loop", "terminate", "done"} \/ dispatches # <<>>
            => start_calls = Registrations)
    /\ [](dispatches # <<>> =>
            \A t \in TapeTimestamps : dispatches[1][1] <= UNIX_EPOCH + t)
    /\ [](dispatches # <<>> =>
            \E t \in TapeTimestamps : dispatches[1][1] = UNIX_EPOCH + t)
    /\ [](pc \in {"terminate", "done"} /\ TapeTimestamps # {}
            => dispatches # <<>>)

\* C9 witness: the first dispatch has happened, at the time of the first
\* book ticker, which is earlier than the first trade
C9_Witness ==
    /\ Len(dispatches) = 1
    /\ start_calls = Registrations
    /\ trade_tape # <<>> /\ bookticker_tape # <<>>
    /\ bookticker_tape[1].event_time < trade_tape[1].time
    /\ dispatches[1][1] = UNIX_EPOCH + bookticker_tape[1].event_time

\* C10: two independent runs on the same tapes, with the same registrations
\* and the same hashes of Run(module), have made the same dispatches and
\* published the same messages on every topic.
C10_TwoRunsAgree ==
    twin # None =>
        /\ twin.dispatches = dispatches
        /\ twin.comms.published = comms.published

-----------------------------------------------------------------------------
(* The matcher: properties of MatcherSpec *)

\* The resting orders of the one configured symbol
MatcherBook(a) ==
    IF SYMBOL \in DOMAIN a.market_by_symbol
    THEN a.market_by_symbol[SYMBOL].open_orders
    ELSE <<>>

\* The messages a step publishes on a topic
NewOn(topic) ==
    SubSeq(comms'.published[topic], Len(comms.published[topic]) + 1,
           Len(comms'.published[topic]))

\* The payload a step's one incoming message carries
Incoming ==
    IF NewOn("order") # <<>> THEN NewOn("order")[1].payload
    ELSE NewOn("market_data")[1].payload

IsFill(msg) == msg.payload.status \in {"Filled", "PartiallyFilled"}

\* The resting order with the id, in a book that holds it
OrderOf(book, id) == book[CHOOSE i \in 1..Len(book) : book[i].order_id = id]

Resting(book, id) == \E i \in 1..Len(book) : book[i].order_id = id

\* The sum of the filled quantities of the first n messages
RECURSIVE FilledUpTo(_, _)
FilledUpTo(msgs, n) ==
    IF n = 0 THEN 0
    ELSE msgs[n].payload.filled_quantity + FilledUpTo(msgs, n - 1)

\* A resting order is on the side a tape trade T hits, at a price T reaches
Reached(o, T) ==
    IF T.is_buyer_maker THEN o.side = "Buy" /\ o.price >= T.price
    ELSE o.side = "Sell" /\ o.price <= T.price

\* Order o is at a price no worse than p for the side T hits
NoWorse(o, p, T) ==
    IF T.is_buyer_maker THEN o.price >= p ELSE o.price <= p

\* C11: a tape trade T fills only the resting orders on the side it hits
\* whose price it reaches (buys at or above T.price for an aggressive sell,
\* sells at or below it for an aggressive buy), best price first, each by
\* min(order remaining, T remaining), until T's quantity is used up; every
\* other order is left as it was and the fills never add up to more than
\* T.quantity.
C11_Fills ==
    LET T == Incoming
        book == MatcherBook(agent)
        fills == NewOn("order_result")
        Filled(o) == \E i \in 1..Len(fills) :
                        fills[i].payload.client_order_id = o.order_id
    IN  NewOn("market_data") # <<>> =>
            /\ \A i \in 1..Len(fills) :
                /\ IsFill(fills[i])
                /\ Resting(book, fills[i].payload.client_order_id)
                /\ Reached(OrderOf(book, fills[i].payload.client_order_id), T)
                /\ fills[i].payload.filled_quantity =
                     Min(OrderOf(book, fills[i].payload.client_order_id).quantity
                         - OrderOf(book, fills[i].payload.client_order_id).filled,
                         T.qty - FilledUpTo(fills, i - 1))
                /\ \A j \in 1..Len(fills) :
                    /\ i < j => NoWorse(OrderOf(book,
                                    fills[i].payload.client_order_id),
                                    fills[j].payload.price, T)
                    /\ i # j => fills[i].payload.client_order_id
                                    # fills[j].payload.client_order_id
            /\ FilledUpTo(fills, Len(fills)) <= T.qty
            /\ \A k \in 1..Len(book) :
                /\ (Reached(book[k], T) /\ ~Filled(book[k])) =>
                        /\ FilledUpTo(fills, Len(fills)) = T.qty
                        /\ \A i \in 1..Len(fills) :
                                NoWorse([price |-> fills[i].payload.price],
                                        book[k].price, T)
                /\ ~Filled(book[k]) =>
                        \E n \in 1..Len(MatcherBook(agent')) :
                            MatcherBook(agent')[n] = book[k]

C11_MatchByPriceUpToTradeQuantity == [][C11_Fills]_vars

\* A sell of 3 at price 1 has swept a buy at 2 for 2, then a buy at 1 for 1
C11_Witness ==
    /\ pc = "loop"
    /\ \E i \in 1..Len(comms.published["order_result"]) - 1 :
        LET first == comms.published["order_result"][i].payload
            second == comms.published["order_result"][i + 1].payload
        IN  /\ first.status = "Filled" /\ first.price = 2
            /\ first.filled_quantity = 2
            /\ second.status = "PartiallyFilled" /\ second.price = 1
            /\ second.filled_quantity = 1
            /\ first.at = second.at
            /\ first.is_buy /\ second.is_buy

\* C12: when an aggressive-sell trade fills two resting buy orders of the
\* same price, the one submitted earlier is filled first.
C12_Fills ==
    LET book == MatcherBook(agent)
        fills == NewOn("order_result")
    IN  (NewOn("market_data") # <<>> /\ Incoming.is_buyer_maker) =>
            \A i, j \in 1..Len(fills) :
                (i < j /\ fills[i].payload.price = fills[j].payload.price) =>
                    OrderOf(book, fills[i].payload.client_order_id).submit_at
                      <= OrderOf(book, fills[j].payload.client_order_id).submit_at

C12_EqualPriceBuysInSubmitOrder == [][C12_Fills]_vars

\* C13: every OrderResult with status filled or partially_filled carries
\* filled_quantity > 0, every resting order has 0 <= filled <= quantity,
\* and the matcher gets there without aborting, whatever the orders and
\* whatever the tape trades of quantity >= 0.
C13_FillsPositiveWithoutAbort ==
    /\ \A i \in 1..Len(comms.published["order_result"]) :
            IsFill(comms.published["order_result"][i]) =>
                comms.published["order_result"][i].payload.filled_quantity > 0
    /\ \A k \in 1..Len(MatcherBook(agent)) :
            /\ 0 <= MatcherBook(agent)[k].filled
            /\ MatcherBook(agent)[k].filled <= MatcherBook(agent)[k].quantity
    /\ pc # "panicked"

\* What of an asset is not locked
Free(a, asset) ==
    IF asset \in DOMAIN a.account
    THEN a.account[asset].balance - a.account[asset].locked
    ELSE 0

Locked(a, asset) ==
    IF asset \in DOMAIN a.account THEN a.account[asset].locked ELSE 0

\* What a request has to lock, and of which asset
Required(req) ==
    IF req.side = "Buy" THEN req.price * req.quantity ELSE req.quantity

RequiredAsset(req) ==
    IF req.side = "Buy" THEN QUOTE_ASSET ELSE BASE_ASSET

\* The step takes in an order request / a cancel request
OrderComesIn ==
    NewOn("order") # <<>> /\ Incoming.type = "OrderRequest"

CancelComesIn ==
    NewOn("order") # <<>> /\ Incoming.type = "CancelOrderRequest"

\* The step answers the request with exactly one OrderResult of the status
AnsweredOnce(req, status) ==
    /\ Len(NewOn("order_result")) = 1
    /\ NewOn("order_result")[1].payload.status = status
    /\ NewOn("order_result")[1].payload.client_order_id = req.client_order_id

\* The request is for an unknown symbol, or cannot lock what it requires
UnknownOrUnfunded(req) ==
    \/ req.symbol # SYMBOL
    \/ Required(req) > Free(agent, RequiredAsset(req))

\* C14: an order request with an unknown symbol, with price <= 0, or with
\* less free balance than it has to lock is answered by an OrderResult
\* rejected for its client_order_id, and the book stays as it was.
C14_Rejects ==
    (OrderComesIn /\ (UnknownOrUnfunded(Incoming) \/ Incoming.price <= 0)) =>
        /\ AnsweredOnce(Incoming, "Rejected")
        /\ MatcherBook(agent') = MatcherBook(agent)

C14_BadRequestsAnsweredRejected == [][C14_Rejects]_vars

\* The step answers an order request with an OrderResult of the status
OrderAnswered(status) ==
    /\ OrderComesIn
    /\ \E i \in 1..Len(NewOn("order_result")) :
            NewOn("order_result")[i].payload.status = status

\* Every asset's (free, locked) is what it was before the step
BalancesKept ==
    \A asset \in {BASE_ASSET, QUOTE_ASSET} :
        /\ Free(agent', asset) = Free(agent, asset)
        /\ Locked(agent', asset) = Locked(agent, asset)

\* C15: an order request that the matcher answers with status rejected
\* changes no asset's (free, locked) and no book, whatever made
\* process_order_request fail: insufficient balance, an unknown symbol, or
\* a configured symbol that has no market yet.
C15_RejectedKeeps ==
    OrderAnswered("Rejected") =>
        /\ BalancesKept
        /\ MatcherBook(agent') = MatcherBook(agent)

C15_RejectedMutatesNothing == [][C15_RejectedKeeps]_vars

\* The balance field of an asset (the spec's "free"), locked part included
Balance(a, asset) ==
    IF asset \in DOMAIN a.account THEN a.account[asset].balance ELSE 0

\* The step locks exactly what the request requires and nothing else, and
\* no balance changes
LocksRequired(req) ==
    \A asset \in {BASE_ASSET, QUOTE_ASSET} :
        /\ Balance(agent', asset) = Balance(agent, asset)
        /\ Locked(agent', asset) = Locked(agent, asset)
                + (IF asset = RequiredAsset(req) THEN Required(req) ELSE 0)

\* The book after the step is the book before plus the request's order,
\* unfilled and stamped with the request's commit_at
Inserted(req, commit_at) ==
    /\ Len(MatcherBook(agent')) = Len(MatcherBook(agent)) + 1
    /\ \A k \in 1..Len(MatcherBook(agent)) :
            \E n \in 1..Len(MatcherBook(agent')) :
                MatcherBook(agent')[n] = MatcherBook(agent)[k]
    /\ \E n \in 1..Len(MatcherBook(agent')) :
            MatcherBook(agent')[n] =
                [order_id |-> req.client_order_id, side |-> req.side,
                 price |-> req.price, quantity |-> req.quantity,
                 filled |-> 0, submit_at |-> commit_at]

\* The step locks, inserts and answers new with nothing filled
Accepts(req, commit_at) ==
    /\ LocksRequired(req)
    /\ Inserted(req, commit_at)
    /\ AnsweredOnce(req, "New")
    /\ NewOn("order_result")[1].payload.filled_quantity = 0

\* C16: an order request that is not rejected locks exactly price x
\* quantity of the quote asset (buy) or quantity of the base asset (sell),
\* changes no balance, puts the order into the book with filled = 0 and
\* submit_at = the request's commit_at, and is answered by exactly one
\* OrderResult new with filled_quantity 0.
C16_NotRejected ==
    (OrderComesIn /\ ~OrderAnswered("Rejected")) =>
        Accepts(Incoming, NewOn("order")[1].commit_at)

C16_NotRejectedLocksInsertsAnswersNew == [][C16_NotRejected]_vars

\* C17: an order request with quantity <= 0 is rejected before any funds
\* are locked: it is answered with status rejected and never new, no
\* asset's locked amount changes, and the book stays as it was.
C17_NoQuantity ==
    (OrderComesIn /\ Incoming.quantity <= 0) =>
        /\ AnsweredOnce(Incoming, "Rejected")
        /\ \A asset \in {BASE_ASSET, QUOTE_ASSET} :
                Locked(agent', asset) = Locked(agent, asset)
        /\ MatcherBook(agent') = MatcherBook(agent)

C17_NoQuantityRejectedBeforeLocking == [][C17_NoQuantity]_vars

\* C18: an order request whose client_order_id is that of an order resting
\* in the same symbol's book is ignored silently: no OrderResult is
\* published for it, and the book and every asset's (free, locked) stay as
\* they were.
C18_Duplicate ==
    (/\ OrderComesIn
     /\ Incoming.symbol = SYMBOL
     /\ Resting(MatcherBook(agent), Incoming.client_order_id)) =>
        /\ NewOn("order_result") = <<>>
        /\ BalancesKept
        /\ MatcherBook(agent') = MatcherBook(agent)

C18_DuplicateIgnoredSilently == [][C18_Duplicate]_vars

\* The outcomes of the matcher's dispatch at instant now, after the client
\* has published payload on the order topic at that instant, from the
\* matcher a and the comms c
AfterOrderMessage(a, c, payload, now) ==
    UNION {MarketAgentDispatch(a, c1, now)
           : c1 \in {Publish(c, STEPPER, stepper.write_order_handle,
                             Message(now, payload))}}

\* The dispatch that gave r answered with one OrderResult of the status
\* (c is the comms before it)
ResultIs(c, r, status) ==
    /\ r.ok
    /\ Len(r.c.published["order_result"])
            = Len(c.published["order_result"]) + 1
    /\ r.c.published["order_result"]
            [Len(r.c.published["order_result"])].payload.status = status

SameBalances(a1, a2) ==
    \A asset \in {BASE_ASSET, QUOTE_ASSET} :
        /\ Balance(a1, asset) = Balance(a2, asset)
        /\ Locked(a1, asset) = Locked(a2, asset)

\* The dispatch that gave r accepted the request: it answered new and the
\* request's order, not in the book of a before, rests in the book after
AcceptedBy(a, c, r, req) ==
    /\ ResultIs(c, r, "New")
    /\ ~Resting(MatcherBook(a), req.client_order_id)
    /\ Resting(MatcherBook(r.self), req.client_order_id)

\* C19: from any state the matcher can be in with two dispatches of the
\* run still to come, an order request that is accepted (answered new,
\* its order put into the book) followed at once by the cancel of its
\* client_order_id, no tape trade in between, leaves every asset's
\* (free, locked) as it was before the order request and leaves the book
\* without an order of that id.
C19_SubmitThenCancelRestores ==
    (pc = "loop" /\ Len(dispatches) + 2 <= MaxMatcherSteps) =>
        \A req \in OrderRequests :
            \A r1 \in AfterOrderMessage(agent, comms, req, clock + 1) :
                AcceptedBy(agent, comms, r1, req) =>
                    \A r2 \in AfterOrderMessage(r1.self, r1.c,
                                CancelOrderRequest(req.symbol,
                                                   req.client_order_id),
                                clock + 2) :
                        /\ r2.ok
                        /\ SameBalances(r2.self, agent)
                        /\ ~Resting(MatcherBook(r2.self),
                                    req.client_order_id)

\* An order has been accepted and locked funds, and the next dispatch has
\* canceled it
C19_Witness ==
    /\ pc = "loop"
    /\ Len(comms.published["order_result"]) >= 2
    /\ LET n == Len(comms.published["order_result"])
           new == comms.published["order_result"][n - 1].payload
           canceled == comms.published["order_result"][n].payload
       IN  /\ new.status = "New" /\ new.at = clock - 1
           /\ canceled.status = "Canceled" /\ canceled.at = clock
           /\ new.client_order_id = canceled.client_order_id
           /\ Locked(agent, QUOTE_ASSET) = 0
           /\ Locked(agent, BASE_ASSET) = 0
           /\ MatcherBook(agent) = <<>>
           /\ comms.published["order"]
                [Len(comms.published["order"]) - 1].payload.quantity > 0

\* C20: a cancel request for a client_order_id that does not rest in the
\* book (never submitted, filled, or canceled already) makes the matcher
\* publish nothing and leaves every book and every asset's (free, locked)
\* as they were.
C20_CancelOfAbsent ==
    (CancelComesIn
        /\ ~Resting(MatcherBook(agent), Incoming.client_order_id)) =>
            /\ NewOn("order_result") = <<>>
            /\ NewOn("account") = <<>>
            /\ BalancesKept
            /\ agent'.market_by_symbol = agent.market_by_symbol
            /\ pc' = pc

C20_CancelOfAbsentOrderIsSilent == [][C20_CancelOfAbsent]_vars

\* An order was canceled, and the dispatch just done took in a second
\* cancel of the same id
C20_Witness ==
    /\ pc = "loop"
    /\ Len(comms.published["order"]) >= 2
    /\ LET last == comms.published["order"][Len(comms.published["order"])]
       IN  /\ last.payload.type = "CancelOrderRequest"
           /\ last.commit_at = clock
           /\ ~Resting(MatcherBook(agent), last.payload.client_order_id)
           /\ \E i \in 1..Len(comms.published["order_result"]) :
                LET res == comms.published["order_result"][i].payload
                IN  /\ res.status = "Canceled"
                    /\ res.client_order_id = last.payload.client_order_id
                    /\ res.at < clock

\* What a fill pays, and what it receives before the fee
PayQty(fill) ==
    IF fill.is_buy THEN fill.price * fill.filled_quantity
    ELSE fill.filled_quantity

Gross(fill) ==
    IF fill.is_buy THEN fill.filled_quantity
    ELSE fill.price * fill.filled_quantity

PayAssetOf(fill) == IF fill.is_buy THEN QUOTE_ASSET ELSE BASE_ASSET
RecvAssetOf(fill) == IF fill.is_buy THEN BASE_ASSET ELSE QUOTE_ASSET

\* What the first n fills of a step add to the balance and to the locked
\* amount of an asset, and to the fee account's balance of it, at rate f
RECURSIVE BalanceDelta(_, _, _, _)
BalanceDelta(fills, n, asset, f) ==
    IF n = 0 THEN 0
    ELSE BalanceDelta(fills, n - 1, asset, f)
         - (IF asset = PayAssetOf(fills[n].payload)
            THEN PayQty(fills[n].payload) ELSE 0)
         + (IF asset = RecvAssetOf(fills[n].payload)
            THEN Gross(fills[n].payload) * (1 - f) ELSE 0)

RECURSIVE LockedDelta(_, _, _)
LockedDelta(fills, n, asset) ==
    IF n = 0 THEN 0
    ELSE LockedDelta(fills, n - 1, asset)
         - (IF asset = PayAssetOf(fills[n].payload)
            THEN PayQty(fills[n].payload) ELSE 0)

RECURSIVE FeeDelta(_, _, _, _)
FeeDelta(fills, n, asset, f) ==
    IF n = 0 THEN 0
    ELSE FeeDelta(fills, n - 1, asset, f)
         + (IF asset = RecvAssetOf(fills[n].payload)
            THEN Gross(fills[n].payload) * f ELSE 0)

FeeBalance(a, asset) ==
    IF asset \in DOMAIN a.fee_account THEN a.fee_account[asset].balance
    ELSE 0

\* C21: every fill of quantity q at price p under fee rate f takes pay_qty
\* (p*q of quote for a buy, q of base for a sell) off the pay asset's
\* balance and off its locked amount, adds gross*(1 - f) to the receive
\* asset's balance and gross*f to the fee account's balance of the receive
\* asset (gross: q of base for a buy, p*q of quote for a sell), so that net
\* plus fee is the gross, and changes nothing else.
C21_Settles ==
    LET fills == NewOn("order_result")
        f == agent.symobl_info_manager[SYMBOL].fee_rate
    IN  NewOn("market_data") # <<>> =>
            \A asset \in {BASE_ASSET, QUOTE_ASSET} :
                /\ Balance(agent', asset) = Balance(agent, asset)
                        + BalanceDelta(fills, Len(fills), asset, f)
                /\ Locked(agent', asset) = Locked(agent, asset)
                        + LockedDelta(fills, Len(fills), asset)
                /\ FeeBalance(agent', asset) = FeeBalance(agent, asset)
                        + FeeDelta(fills, Len(fills), asset, f)
                /\ BalanceDelta(fills, Len(fills), asset, f)
                        + FeeDelta(fills, Len(fills), asset, f)
                     = BalanceDelta(fills, Len(fills), asset, 0)

C21_FillSettlesPayReceiveAndFee == [][C21_Settles]_vars

\* A buy of 2 at price 1 has been filled whole under fee rate 1: 2 of the
\* quote asset are gone, the 2 of the base asset went to the fee account
C21_Witness ==
    /\ pc = "loop"
    /\ agent.symobl_info_manager[SYMBOL].fee_rate = 1
    /\ Len(comms.published["order_result"]) = 2
    /\ comms.published["order_result"][2].payload.status = "Filled"
    /\ comms.published["order_result"][2].payload.is_buy
    /\ comms.published["order_result"][2].payload.price = 1
    /\ comms.published["order_result"][2].payload.filled_quantity = 2
    /\ Balance(agent, QUOTE_ASSET) = 4
    /\ Locked(agent, QUOTE_ASSET) = 0
    /\ Balance(agent, BASE_ASSET) = 4
    /\ FeeBalance(agent, BASE_ASSET) = 2

\* The topics of the calls of publish a step makes, in the order it makes
\* them
NewLog == SubSeq(comms'.log, Len(comms.log) + 1, Len(comms'.log))

\* The entry of an AccountUpdate for an asset whose balance and locked
\* amount were those of account a before the first n of the fills
EntryAfter(a, fills, n, asset) ==
    [asset |-> asset,
     balance |-> Balance(a, asset)
        + BalanceDelta(fills, n, asset,
                       a.symobl_info_manager[SYMBOL].fee_rate),
     locked |-> Locked(a, asset) + LockedDelta(fills, n, asset)]

\* The sum of the filled quantities of the fills for an order id
RECURSIVE FilledOf(_, _, _)
FilledOf(fills, n, id) ==
    IF n = 0 THEN 0
    ELSE FilledOf(fills, n - 1, id)
         + (IF fills[n].payload.client_order_id = id
            THEN fills[n].payload.filled_quantity ELSE 0)

\* C22: each fill makes the matcher publish, in this order, one OrderResult
\* whose status is filled exactly when the order's remaining quantity has
\* reached 0 and partially_filled otherwise, followed by one AccountUpdate
\* carrying the post-fill (balance, locked) of exactly the pay asset and the
\* receive asset.  In a step that takes a tape trade: the calls of publish
\* after the trade's own are an OrderResult and an AccountUpdate in turn,
\* one pair per fill (and at most the account summary after them); every
\* resting order's filled amount grows by what the OrderResults for it
\* carry; the k-th OrderResult is filled exactly when the order it names has
\* nothing left after it; and the k-th AccountUpdate carries exactly the
\* pay asset and the receive asset of the k-th fill, with the balance and
\* locked amount they have after the first k fills.
C22_Publishes ==
    LET fills == NewOn("order_result")
        updates == NewOn("account")
        k == Len(fills)
        book == MatcherBook(agent)
        Left(i) == LET o == OrderOf(book, fills[i].payload.client_order_id)
                   IN  o.quantity - o.filled
                        - FilledOf(fills, i, o.order_id)
    IN  NewOn("market_data") # <<>> =>
            /\ NewLog[1] = "market_data"
            /\ Len(updates) \in {k, k + 1}
            /\ Len(NewLog) = 1 + k + Len(updates)
            /\ \A i \in 1..k :
                /\ NewLog[2 * i] = "order_result"
                /\ NewLog[2 * i + 1] = "account"
                /\ IsFill(fills[i])
                /\ Resting(book, fills[i].payload.client_order_id)
                /\ fills[i].payload.status = "Filled" <=> Left(i) = 0
                /\ updates[i].payload =
                    [type |-> "AccountUpdate",
                     updates |->
                        <<EntryAfter(agent, fills, i,
                                     PayAssetOf(fills[i].payload)),
                          EntryAfter(agent, fills, i,
                                     RecvAssetOf(fills[i].payload))>>]
            /\ pc' = "loop" =>
                \A j \in 1..Len(book) :
                    LET got == FilledOf(fills, k, book[j].order_id)
                    IN  IF Resting(MatcherBook(agent'), book[j].order_id)
                        THEN OrderOf(MatcherBook(agent'),
                                     book[j].order_id).filled
                                = book[j].filled + got
                        ELSE book[j].filled + got = book[j].quantity

C22_FillPublishesResultThenAccount == [][C22_Publishes]_vars

\* A sell of 2 was hit by two trades of 1: the first fill was published
\* partially filled, the second filled, each followed by its AccountUpdate
C22_Witness ==
    /\ pc = "loop"
    /\ Len(comms.published["order_result"]) = 3
    /\ comms.published["order_result"][2].payload.status = "PartiallyFilled"
    /\ comms.published["order_result"][3].payload.status = "Filled"
    /\ ~comms.published["order_result"][2].payload.is_buy
    /\ comms.published["order_result"][2].payload.filled_quantity = 1
    /\ comms.published["order_result"][3].payload.filled_quantity = 1
    /\ comms.published["order_result"][3].payload.client_order_id
        = comms.published["order_result"][2].payload.client_order_id
    /\ Len(comms.published["account"]) = 2
    /\ SubSeq(comms.log, Len(comms.log) - 2, Len(comms.log))
        = <<"market_data", "order_result", "account">>
    /\ MatcherBook(agent) = <<>>

\* The trades a market's buffer is filled with to match two in one call
BufferedTrades ==
    {[price |-> p, quantity |-> n, trade_at |-> UNIX_EPOCH,
      is_buyer_maker |-> bm] : p \in {1, 2}, n \in {1, 3}, bm \in BOOLEAN}

\* The events of one call of try_match_market on the book with the two
\* trades in its buffer
EventsOfTwo(book, t1, t2) ==
    try_match_market([NewSimpleMarket EXCEPT
                        !.open_orders = book,
                        !.market_trade_buf = <<t1, t2>>]).events

\* No event comes for an order after the event that exhausted it
NoneAfterExhausted(events) ==
    \A i, j \in 1..Len(events) :
        (i < j /\ events[i].order_id = events[j].order_id)
            => events[i].reamin_qty_to_fill > 0

\* C23: after each tape trade is processed, every order whose filled amount
\* has reached its quantity is removed from the book, so after every
\* dispatch all resting orders have filled < quantity and a removed order
\* never receives another fill; a partially filled order stays resting with
\* its accumulated filled amount.  In every step the book left has only
\* orders with filled < quantity; a step that takes a tape trade fills only
\* orders that rested before it, removes those it exhausts and keeps the
\* others with what they were filled by added; and two trades of one side
\* matched in one call, on any book a step leaves, never give an event for
\* an order the first has exhausted.
C23_Removes ==
    LET fills == NewOn("order_result")
        book == MatcherBook(agent)
        after == MatcherBook(agent')
    IN  /\ \A j \in 1..Len(after) : after[j].filled < after[j].quantity
        /\ (NewOn("market_data") # <<>> /\ pc' = "loop") =>
            /\ \A i \in 1..Len(fills) :
                    Resting(book, fills[i].payload.client_order_id)
            /\ \A j \in 1..Len(book) :
                LET filled == book[j].filled
                        + FilledOf(fills, Len(fills), book[j].order_id)
                IN  /\ filled <= book[j].quantity
                    /\ filled = book[j].quantity
                        => ~Resting(after, book[j].order_id)
                    /\ filled < book[j].quantity
                        => /\ Resting(after, book[j].order_id)
                           /\ OrderOf(after, book[j].order_id)
                                = [book[j] EXCEPT !.filled = filled]
        /\ after # book =>
                \A t1 \in BufferedTrades :
                    \A t2 \in {t \in BufferedTrades :
                                t.is_buyer_maker = t1.is_buyer_maker} :
                        NoneAfterExhausted(EventsOfTwo(after, t1, t2))

C23_FilledOrdersLeaveTheBook == [][C23_Removes]_vars

\* Of two resting orders hit by one trade of 3, the one filled whole has
\* left the book and the other rests with 1 of its 2 filled
C23_Witness ==
    /\ pc = "loop"
    /\ Len(comms.published["order_result"]) = 4
    /\ comms.published["order_result"][3].payload.status = "Filled"
    /\ comms.published["order_result"][4].payload.status = "PartiallyFilled"
    /\ Len(MatcherBook(agent)) = 1
    /\ MatcherBook(agent)[1].quantity = 2
    /\ MatcherBook(agent)[1].filled = 1
    /\ MatcherBook(agent)[1].order_id
        = comms.published["order_result"][4].payload.client_order_id

\* C24: after every dispatch, every asset in the matcher's account has
\* locked <= balance, for any sequence of order requests, cancel requests
\* and tape trades, under either fee rate.
C24_LockedWithinBalance ==
    \A asset \in DOMAIN agent.account :
        agent.account[asset].locked <= agent.account[asset].balance

\* Two buys have locked the whole balance of the quote asset, and a third
\* request was rejected for want of a free amount
C24_Witness ==
    /\ pc = "loop"
    /\ Locked(agent, QUOTE_ASSET) = Balance(agent, QUOTE_ASSET)
    /\ Locked(agent, QUOTE_ASSET) > 0
    /\ Len(MatcherBook(agent)) = 2
    /\ Len(comms.published["order_result"]) = 3
    /\ comms.published["order_result"][3].payload.status = "Rejected"
    /\ comms.published["order_result"][3].payload.is_buy

-----------------------------------------------------------------------------
(* The order book: properties of MarketSpec *)

\* The resting orders of the market under test
Book == TheMarket.open_orders

\* C25: after any sequence of add_order, cancel_order and try_match_market
\* calls, no two resting orders of a SimpleMarket have the same order id;
\* add_order with an id equal to a resting order's id leaves the book (and
\* the rest of the market) unchanged.
C25_OrderIdsUnique ==
    /\ \A i, j \in 1..Len(Book) :
            Book[i].order_id = Book[j].order_id => i = j
    /\ \A order \in MarketOrders :
            Resting(Book, order.order_id)
                => add_order(TheMarket, order) = TheMarket

\* Three orders rest, one of them filled in part: add_order with any of
\* the three ids is a call the book has to ignore
C25_Witness ==
    /\ Len(Book) = 3
    /\ \E i \in 1..3 : Book[i].filled = 1
    /\ \E order \in MarketOrders :
        /\ order.quantity > 0
        /\ Resting(Book, order.order_id)
        /\ OrderOf(Book, order.order_id).price # order.price

\* The book without the order with the id
Without(book, id) ==
    LET Other(o) == o.order_id # id IN SelectSeq(book, Other)

\* The place of the order with the id in a book that holds it
PlaceOf(book, id) == CHOOSE i \in 1..Len(book) : book[i].order_id = id

\* C26: after any sequence of add_order, cancel_order and try_match_market
\* calls, the resting orders of a SimpleMarket are sorted by price
\* ascending and, among orders of equal price, by submit_at ascending;
\* orders of equal price and equal submit_at keep insertion order: an order
\* that add_order inserts goes behind every resting order it does not sort
\* strictly before, and the other orders keep their places among
\* themselves.
C26_SortedByPriceThenTime ==
    /\ \A i, j \in 1..Len(Book) :
            i < j => \/ Book[i].price < Book[j].price
                     \/ /\ Book[i].price = Book[j].price
                        /\ Book[i].submit_at <= Book[j].submit_at
    /\ \A order \in MarketOrders :
            (order.quantity > 0 /\ ~Resting(Book, order.order_id)) =>
                LET after == add_order(TheMarket, order).open_orders
                    k == PlaceOf(after, order.order_id)
                IN  /\ Len(after) = Len(Book) + 1
                    /\ after[k] = order
                    /\ Without(after, order.order_id) = Book
                    /\ \A j \in 1..Len(after) :
                        j > k => \/ order.price < after[j].price
                                 \/ /\ order.price = after[j].price
                                    /\ order.submit_at < after[j].submit_at

\* Three orders of one price rest, the first two submitted at the same
\* instant and the third later
C26_Witness ==
    /\ Len(Book) = 3
    /\ Book[1].price = Book[2].price
    /\ Book[2].price = Book[3].price
    /\ Book[1].submit_at = Book[2].submit_at
    /\ Book[2].submit_at < Book[3].submit_at
    /\ Book[1].order_id = "b"
    /\ Book[2].order_id = "a"

\* C30: SimpleMarket.add_order with quantity <= 0 leaves the book (and the
\* rest of the market) unchanged.
C30_NoQuantityLeavesBook ==
    \A order \in MarketOrders :
        order.quantity <= 0 => add_order(TheMarket, order) = TheMarket

\* Two orders rest and a trade is buffered: add_order with quantity 0 or
\* below, of a third id, is a call the book has to ignore
C30_Witness ==
    /\ Len(Book) = 2
    /\ TheMarket.market_trade_buf # <<>>
    /\ \E order \in MarketOrders :
        /\ order.quantity < 0
        /\ ~Resting(Book, order.order_id)

\* The fills a trade would make on a book
EventsOfOne(book, trade) ==
    try_match_market([NewSimpleMarket EXCEPT
                        !.open_orders = book,
                        !.market_trade_buf = <<trade>>]).events

\* C27: canceling a resting order that has been partially filled unlocks
\* exactly price x (quantity - filled) of the quote asset (buy) or
\* (quantity - filled) of the base asset (sell), changes no balance,
\* removes the order from the book, and emits exactly one OrderResult with
\* status canceled; the order receives no fill afterwards: no trade makes
\* a fill for its id on the book the cancel leaves.
C27_CancelsPartlyFilled ==
    LET book == MatcherBook(agent)
        after == MatcherBook(agent')
        id == Incoming.client_order_id
        order == OrderOf(book, id)
        asset == IF order.side = "Buy" THEN QUOTE_ASSET ELSE BASE_ASSET
        left == IF order.side = "Buy"
                THEN order.price * (order.quantity - order.filled)
                ELSE order.quantity - order.filled
    IN  (/\ CancelComesIn
         /\ Incoming.symbol = SYMBOL
         /\ Resting(book, id)
         /\ order.filled > 0) =>
            /\ pc' = "loop"
            /\ Locked(agent', asset) = Locked(agent, asset) - left
            /\ \A other \in {BASE_ASSET, QUOTE_ASSET} \ {asset} :
                    Locked(agent', other) = Locked(agent, other)
            /\ \A any \in {BASE_ASSET, QUOTE_ASSET} :
                    Balance(agent', any) = Balance(agent, any)
            /\ ~Resting(after, id)
            /\ after = Without(book, id)
            /\ AnsweredOnce(Incoming, "Canceled")
            /\ NewOn("account") = <<>>
            /\ \A trade \in BufferedTrades :
                    \A i \in 1..Len(EventsOfOne(after, trade)) :
                        EventsOfOne(after, trade)[i].order_id # id

C27_CancelOfPartlyFilledUnlocksTheRest == [][C27_CancelsPartlyFilled]_vars

\* A buy of 2 at price 2 was filled by 1 and then canceled: of the 4 it
\* had locked, the fill took 2 and the cancel gave 2 back
C27_Witness ==
    /\ pc = "loop"
    /\ Len(dispatches) = 4
    /\ Len(comms.published["order_result"]) = 3
    /\ comms.published["order_result"][1].payload.status = "New"
    /\ comms.published["order_result"][1].payload.is_buy
    /\ comms.published["order_result"][1].payload.price = 2
    /\ comms.published["order_result"][2].payload.status = "PartiallyFilled"
    /\ comms.published["order_result"][2].payload.filled_quantity = 1
    /\ comms.published["order_result"][3].payload.status = "Canceled"
    /\ comms.published["order_result"][3].payload.client_order_id
        = comms.published["order_result"][2].payload.client_order_id
    /\ MatcherBook(agent) = <<>>
    /\ Locked(agent, QUOTE_ASSET) = 0
    /\ Balance(agent, QUOTE_ASSET) = 4
    /\ Balance(agent, BASE_ASSET) = 5

\* C28: publish(handle, m) sets the topic's last_updated_at to exactly
\* m.header.commit_at, and no operation other than publish on that topic
\* changes last_updated_at.  In every step of the engine, a topic that was
\* published on has the commit_at of the last message published on it,
\* and a topic that was not published on (whatever was received, whatever
\* was published on other topics, request_terminate called or not) has the
\* last_updated_at it had.
C28_Stamps ==
    \A topic \in DOMAIN comms.topic_updated_at :
        IF comms'.published[topic] # comms.published[topic]
        THEN comms'.topic_updated_at[topic]
                = comms'.published[topic]
                    [Len(comms'.published[topic])].commit_at
        ELSE comms'.topic_updated_at[topic] = comms.topic_updated_at[topic]

C28_OnlyPublishStampsItsTopic == [][C28_Stamps]_vars

\* The strategy has published an order at another instant than the last
\* tape event was published at, the matcher has answered it after its last
\* message on the account topic, and the world has been told to stop: each
\* topic has the stamp of its own last message
C28_Witness ==
    /\ pc = "loop"
    /\ ~comms.is_world_running
    /\ comms.published["market_data"] # <<>>
    /\ comms.published["order"] # <<>>
    /\ comms.topic_updated_at["market_data"]
        = comms.published["market_data"]
            [Len(comms.published["market_data"])].commit_at
    /\ comms.topic_updated_at["order"]
        = comms.published["order"][Len(comms.published["order"])].commit_at
    /\ comms.topic_updated_at["order"] # comms.topic_updated_at["market_data"]
    /\ comms.published["account"] # <<>>
    /\ comms.topic_updated_at["account"]
        = comms.published["account"]
            [Len(comms.published["account"])].commit_at
    /\ comms.topic_updated_at["account"] < comms.topic_updated_at["order"]
    /\ comms.topic_updated_at["order_result"]
        > comms.topic_updated_at["account"]
    /\ \E ch \in DOMAIN comms.received : comms.received[ch] # <<>>

\* The step dispatches the strategy module
StepperRuns ==
    /\ Len(dispatches') = Len(dispatches) + 1
    /\ dispatches'[Len(dispatches')][2] = STEPPER

\* C29: the strategy module runs its strategy logic at most once per 100 ms
\* of virtual time: between any two dispatches in which it publishes on the
\* order topic at least 100 ms of virtual time elapse, and in dispatches
\* closer than that (to the last one that published an order, or to the
\* last one that ran the logic) it only drains its mailboxes and publishes
\* nothing.
C29_Paces ==
    LET now == dispatches'[Len(dispatches')][1]
        orders == comms.published["order"]
    IN  StepperRuns =>
            /\ NewOn("order") # <<>> =>
                \A i \in 1..Len(orders) :
                    orders[i].commit_at + STEPPER_MIN_INTERVAL_MS <= now
            /\ (\/ \E i \in 1..Len(orders) :
                    orders[i].commit_at + STEPPER_MIN_INTERVAL_MS > now
                \/ stepper.last_iteration_time + STEPPER_MIN_INTERVAL_MS > now)
                => /\ pc' = "loop"
                   /\ comms'.log = comms.log
                   /\ comms'.published = comms.published
                   /\ stepper'.last_iteration_time
                        = stepper.last_iteration_time
                   /\ stepper'.mm_strategy = stepper.mm_strategy
                   /\ ~Unread(STEPPER)'

C29_StrategyAtMostOncePer100ms == [][C29_Paces]_vars

\* The strategy has published orders at two instants; between them it was
\* dispatched less than 100 ms after the first, and published nothing
C29_Witness ==
    /\ pc = "loop"
    /\ \E i, j \in 1..Len(comms.published["order"]) :
        /\ comms.published["order"][i].commit_at
            + STEPPER_MIN_INTERVAL_MS
                <= comms.published["order"][j].commit_at
        /\ \E k \in 1..Len(dispatches) :
            /\ dispatches[k][2] = STEPPER
            /\ dispatches[k][1] > comms.published["order"][i].commit_at
            /\ dispatches[k][1] < comms.published["order"][i].commit_at
                                    + STEPPER_MIN_INTERVAL_MS
            /\ \A n \in 1..Len(comms.published["order"]) :
                    comms.published["order"][n].commit_at # dispatches[k][1]

-----------------------------------------------------------------------------
(* The order tracker: properties of TrackerSpec *)

\* C31: OrderTracker.upsert_order returns true exactly when no order with
\* that id was tracked before the call, and in both cases the order
\* tracked under that id afterwards equals the given order: an existing
\* entry is replaced, the number of tracked orders grows (by one) only for
\* a new id, and the orders under other ids and the report ids stay.
C31_UpsertReplacesOrInserts ==
    \A order \in TrackerOrders :
        LET after == upsert_order(TheTracker, order)
            tracked == order.order_id \in DOMAIN TheTracker.orders
        IN  /\ is_new_order(TheTracker, order) = ~tracked
            /\ order.order_id \in DOMAIN after.orders
            /\ after.orders[order.order_id] = order
            /\ Cardinality(DOMAIN after.orders)
                = Cardinality(DOMAIN TheTracker.orders)
                    + (IF tracked THEN 0 ELSE 1)
            /\ \A id \in DOMAIN TheTracker.orders \ {order.order_id} :
                    /\ id \in DOMAIN after.orders
                    /\ after.orders[id] = TheTracker.orders[id]
            /\ after.proceed_unique_fill_report_id
                = TheTracker.proceed_unique_fill_report_id

\* Two orders are tracked, one filled in part and asked to be canceled:
\* upsert_order with its id has an entry to replace
C31_Witness ==
    /\ DOMAIN TheTracker.orders = TrackedIds
    /\ TheTracker.orders["x"].filled = 1
    /\ TheTracker.orders["x"].status = "CancelRequested"
    /\ TheTracker.orders["x"].side = "Sell"
    /\ TheTracker.orders["y"].status = "Open"

\* C32: OrderTracker.fill_order with a unique_fill_report_id is idempotent
\* per report id: the first call with a given report id adds the filled
\* amount to the order (when the order is tracked) and keeps the report
\* id, and every later call with the same report id, for any order id and
\* amount and whatever was called in between, changes nothing; no call
\* makes the tracker forget a report id.
C32_FillOnce ==
    /\ \A r \in ReportIds, order_id \in TrackedIds, filled \in {1, 2} :
        LET report == [type |-> "Some", id |-> r]
            after == fill_order(TheTracker, order_id, filled, report)
        IN  IF r \in TheTracker.proceed_unique_fill_report_id
            THEN after = TheTracker
            ELSE /\ after.proceed_unique_fill_report_id
                        = TheTracker.proceed_unique_fill_report_id \cup {r}
                 /\ DOMAIN after.orders = DOMAIN TheTracker.orders
                 /\ \A id \in DOMAIN after.orders :
                        after.orders[id] =
                            IF id = order_id
                            THEN [TheTracker.orders[id] EXCEPT
                                    !.filled = @ + filled]
                            ELSE TheTracker.orders[id]
                 /\ \A id2 \in TrackedIds, filled2 \in {1, 2} :
                        fill_order(after, id2, filled2, report) = after
    /\ TheTracker.proceed_unique_fill_report_id
        \subseteq TheTracker'.proceed_unique_fill_report_id

C32_FillOrderIdempotentPerReport == [][C32_FillOnce]_vars

\* An order was filled by 1 under report1 and by 1 under report2: a call
\* with either report id has nothing left to do
C32_Witness ==
    /\ TheTracker.proceed_unique_fill_report_id = ReportIds
    /\ "x" \in DOMAIN TheTracker.orders
    /\ TheTracker.orders["x"].filled = 2
    /\ TheTracker.orders["x"].status = "Open"
    /\ "y" \notin DOMAIN TheTracker.orders

-----------------------------------------------------------------------------
(* The matcher: more properties of MatcherSpec *)

\* What the first n resting orders of a book keep locked of an asset
RECURSIVE Backing(_, _, _)
Backing(book, n, asset) ==
    IF n = 0 THEN 0
    ELSE Backing(book, n - 1, asset)
         + (IF asset = QUOTE_ASSET /\ book[n].side = "Buy"
            THEN book[n].price * (book[n].quantity - book[n].filled)
            ELSE IF asset = BASE_ASSET /\ book[n].side = "Sell"
                 THEN book[n].quantity - book[n].filled
                 ELSE 0)

\* C33: after every matcher dispatch the locked amount of the quote asset
\* equals the sum over resting buy orders of price x (quantity - filled)
\* and the locked amount of the base asset equals the sum over resting
\* sell orders of (quantity - filled): no funds stay locked without a
\* resting order backing them.
C33_LockedIsBacked ==
    pc = "loop" =>
        \A asset \in {BASE_ASSET, QUOTE_ASSET} :
            Locked(agent, asset)
                = Backing(MatcherBook(agent), Len(MatcherBook(agent)), asset)

-----------------------------------------------------------------------------
(* The engine: more properties *)

\* C34: every tape event published on market_data is received by the
\* matching engine in a sync (and, for a trade, matched against the book in
\* the following one_iteration) before the run ends, the last event of the
\* tapes included: once run() has left its main loop, the matcher has been
\* handed every message published on market_data, none is left in its
\* mailbox, and no market has a trade left in its buffer.
C34_EveryTapeEventReachesTheMatcher ==
    pc \in {"terminate", "done"} =>
        /\ comms.received[<<AGENT, "market_data">>] = Published("market_data")
        /\ comms.mailbox[<<AGENT, "market_data">>] = <<>>
        /\ \A symbol \in DOMAIN agent.market_by_symbol :
                agent.market_by_symbol[symbol].market_trade_buf = <<>>

-----------------------------------------------------------------------------
(* The matcher: the answers to one order *)

\* The statuses of the answers published for one client_order_id, in order
RECURSIVE StatusesOf(_, _, _)
StatusesOf(results, n, id) ==
    IF n = 0 THEN <<>>
    ELSE IF results[n].payload.client_order_id = id
         THEN Append(StatusesOf(results, n - 1, id), results[n].payload.status)
         ELSE StatusesOf(results, n - 1, id)

\* Where the first n answers leave an order: not answered yet, "live" after
\* New and partial fills, "ended" after Rejected or a terminal answer, and
\* "broken" by any answer out of that order
RECURSIVE Lifecycle(_, _)
Lifecycle(statuses, n) ==
    IF n = 0 THEN "unanswered"
    ELSE LET before == Lifecycle(statuses, n - 1)
             status == statuses[n]
         IN  CASE before = "unanswered" /\ status = "New" -> "live"
               [] before = "unanswered" /\ status = "Rejected" -> "ended"
               [] before = "live" /\ status = "PartiallyFilled" -> "live"
               [] before = "live" /\ status \in {"Filled", "Canceled"} -> "ended"
               [] OTHER -> "broken"

\* C35: for every client_order_id the OrderResults published by the matcher
\* form a well-ordered lifecycle: first exactly one New (or exactly one
\* Rejected and then nothing), then zero or more PartiallyFilled, then at
\* most one terminal result (Filled or Canceled), and no result after the
\* terminal one.
C35_AnswersFormALifecycle ==
    \A id \in OrderIds :
        LET statuses == StatusesOf(Published("order_result"),
                                   Len(Published("order_result")), id)
        IN  Lifecycle(statuses, Len(statuses)) # "broken"

-----------------------------------------------------------------------------
(* The matcher in the engine: which trades fill an order *)

\* The events the matcher's one_iteration takes from its markets when the
\* engine dispatches it at now, each with the resting order it fills
FillsOfDispatch(now) ==
    LET Pairs(market) ==
            {[event |-> try_match_market(market).events[i], order |-> o]
             : i \in DOMAIN try_match_market(market).events,
               o \in Range(market.open_orders)}
        Fills(market) ==
            {p \in Pairs(market) : p.event.order_id = p.order.order_id}
        Synced(e) == MarketAgentSync(e.agent, e.comms, now)
        Matched(s) ==
            IF ~s.ok THEN {}
            ELSE UNION {Fills(s.self.market_by_symbol[symbol])
                        : symbol \in DOMAIN s.self.market_by_symbol}
    IN  UNION {Matched(s) : s \in {Only({Synced(e)
                                : e \in {set_time(Engine, now)}})}}

\* The engine dispatches the matcher in this step
MatcherDispatched ==
    /\ Len(dispatches') = Len(dispatches) + 1
    /\ dispatches'[Len(dispatches')][2] = AGENT

C36_Fills ==
    MatcherDispatched =>
        \A p \in FillsOfDispatch(dispatches'[Len(dispatches')][1]) :
            p.event.event_at >= p.order.submit_at

\* C36: a resting order is never filled by a tape trade whose timestamp is
\* earlier than the order's submit_at (the commit_at of its order request):
\* every fill pairs an order with a trade of time >= submit_at, for sorted
\* tapes and any dispatch order of strategy and matcher at the same instant.
C36_NoFillByEarlierTrade == [][C36_Fills]_vars

\* An order the strategy sent at the instant of a trade of the tape is
\* filled by the matcher at that same instant
C36_Witness ==
    \E i \in DOMAIN Published("order_result"), j \in DOMAIN Published("order") :
        /\ IsFill(Published("order_result")[i])
        /\ Published("order")[j].payload.type = "OrderRequest"
        /\ Published("order")[j].payload.client_order_id
                = Published("order_result")[i].payload.client_order_id
        /\ Published("order")[j].commit_at
                = Published("order_result")[i].payload.at
        /\ \E k \in DOMAIN trade_tape :
                UNIX_EPOCH + trade_tape[k].time = Published("order")[j].commit_at

-----------------------------------------------------------------------------
(* The engine: dispatches at one instant *)

\* How often run() has dispatched module m at time t so far
RECURSIVE DispatchesAt(_, _, _)
DispatchesAt(n, t, m) ==
    IF n = 0 THEN 0
    ELSE DispatchesAt(n - 1, t, m) + (IF dispatches[n] = <<t, m>> THEN 1 ELSE 0)

\* The instants an event was pushed for, run or still in the heap
EventTimes == {ev[1] : ev \in Range(dispatches) \cup BagToSet(q)}

\* C37: only finitely many dispatches happen at any single virtual instant:
\* a given module is enqueued at most once per instant (the fan-out records
\* module_last_sync_time = now and requires a strictly newer topic
\* timestamp), and after each of its dispatches the replay source's next
\* wake-up is strictly later than the current clock.
C37_OncePerModuleAndInstant ==
    /\ \A t \in EventTimes, m \in Range(Registrations) :
            DispatchesAt(Len(dispatches), t, m) + CopiesIn(<<t, m>>, q) <= 1
    /\ pc = "loop" =>
            \A ev \in BagToSet(q) : ev[2] = REPUBLISHER => ev[1] > clock

\* The strategy has run at this instant, a message published after that at
\* the same instant waits in its mailbox, no event is pushed for it, and the
\* replay source waits for a later instant
C37_Witness ==
    /\ pc = "loop"
    /\ <<clock, STEPPER>> \in Range(dispatches)
    /\ Unread(STEPPER)
    /\ ~BagIn(<<clock, STEPPER>>, q)
    /\ \E ev \in BagToSet(q) : ev[2] = REPUBLISHER /\ ev[1] > clock

-----------------------------------------------------------------------------
(* The matcher: the price of a fill *)

\* What the first n fills of a step move of the quote asset when each is
\* taken at the limit price of the order it fills in the book: paid by the
\* buys, received by the sells
RECURSIVE QuotePaidAtLimit(_, _, _)
QuotePaidAtLimit(fills, n, book) ==
    IF n = 0 THEN 0
    ELSE QuotePaidAtLimit(fills, n - 1, book)
         + (IF fills[n].payload.is_buy
            THEN OrderOf(book, fills[n].payload.client_order_id).price
                    * fills[n].payload.filled_quantity
            ELSE 0)

RECURSIVE QuoteReceivedAtLimit(_, _, _)
QuoteReceivedAtLimit(fills, n, book) ==
    IF n = 0 THEN 0
    ELSE QuoteReceivedAtLimit(fills, n - 1, book)
         + (IF fills[n].payload.is_buy THEN 0
            ELSE OrderOf(book, fills[n].payload.client_order_id).price
                    * fills[n].payload.filled_quantity)

C38_AtLimit ==
    LET fills == NewOn("order_result")
        book == MatcherBook(agent)
    IN  NewOn("market_data") # <<>> =>
            /\ \A i \in DOMAIN fills :
                /\ Resting(book, fills[i].payload.client_order_id)
                /\ fills[i].payload.price
                    = OrderOf(book, fills[i].payload.client_order_id).price
            /\ (\A i \in DOMAIN fills :
                    Resting(book, fills[i].payload.client_order_id)) =>
                /\ Locked(agent', QUOTE_ASSET) = Locked(agent, QUOTE_ASSET)
                        - QuotePaidAtLimit(fills, Len(fills), book)
                /\ Balance(agent', QUOTE_ASSET) = Balance(agent, QUOTE_ASSET)
                        - QuotePaidAtLimit(fills, Len(fills), book)
                        + QuoteReceivedAtLimit(fills, Len(fills), book)

\* C38: every fill is executed and accounted at the resting order's own
\* limit price, not at the tape trade's price: the OrderResult price and the
\* quote amount consumed (buy) or received (sell) use order.price, so the
\* quote consumed for a buy fill of q is exactly the amount that was locked
\* for q.
C38_FillsAtTheLimitPrice == [][C38_AtLimit]_vars

\* A buy of 2 at price 2 has been filled whole by a trade at price 1: the
\* answer carries price 2 and the 4 of the quote asset it locked are gone
C38_Witness ==
    /\ pc = "loop"
    /\ Len(Published("market_data")) = 2
    /\ Published("market_data")[2].payload.price = 1
    /\ Published("market_data")[2].payload.qty = 3
    /\ Len(Published("order_result")) = 2
    /\ Published("order_result")[2].payload.status = "Filled"
    /\ Published("order_result")[2].payload.is_buy
    /\ Published("order_result")[2].payload.price = 2
    /\ Published("order_result")[2].payload.filled_quantity = 2
    /\ Balance(agent, QUOTE_ASSET) = 2
    /\ Locked(agent, QUOTE_ASSET) = 0
    /\ Balance(agent, BASE_ASSET) = 6

-----------------------------------------------------------------------------
(* The matcher: properties of MatcherSignedSpec *)

\* C39: the locked amount of every asset in the matcher's account is never
\* negative, for any sequence of order requests (with any quantity,
\* negative ones included), cancel requests and tape trades.
C39_LockedNeverNegative ==
    \A asset \in {BASE_ASSET, QUOTE_ASSET} : Locked(agent, asset) >= 0

====
